---- MODULE Spec2Model ----
(***************************************************************************)
(* A model of the tools of the bon-cop-bad-cop plugin and of the game      *)
(* state keeping of the claude-chess plugin:                               *)
(*   tools/detect_flaky.py     the flaky-test detector                     *)
(*   tools/detect_cheating.py  the cheating-pattern detector               *)
(*   tools/strip_comments.py   remove_inline_comments                      *)
(*   adapters/stockfish.py, adapters/local_board.py  the chess adapters    *)
(*   scripts/chess_server.py   the MCP tools that write state/game.json    *)
(* Each detector is a process: its arguments are read, its work is done in the *)
(* order the code does it, and it ends with an exit status.  Text that the *)
(* code transforms or searches (outcome tokens, guard expressions, source  *)
(* lines) is a sequence of one-character strings, so that str.replace,     *)
(* the "in" substring test and re.search are computed, not assumed.       *)
(***************************************************************************)
EXTENDS Integers, Sequences, FiniteSets, TLC

VARIABLES
    f_pc,          \* detect_flaky.py: position of the process
    f_caller,      \* who called detect_flaky_tests: "main" or another caller
    f_runs,        \* args.runs
    f_framework,   \* framework, after detect_flaky_tests line 184-185
    f_fs,          \* what detect_framework found in the file system, if called
    f_json,        \* args.json
    all_results,   \* detect_flaky_tests: list of per-run result maps
    f_child,       \* the test-runner child process of the current run
    f_children,    \* every child process the session started, in order, with
                   \* its state and what kind of text its stdout turned out to be
    test_results,  \* detect_flaky_tests: list of TestResult, one per test name
    f_report,      \* the FlakyReport returned to main
    f_stdout,      \* what main printed on standard output
    f_exit,        \* exit status of the process, meaningful when f_pc = "exited"
    f_raised,      \* the exception that ended the process, or "none"
    c_pc,          \* detect_cheating.py: position of the process
    c_args,        \* sys.argv
    c_impl,        \* the implementation file
    c_test,        \* the test file
    c_test_values, \* detect_cheating: what extract_test_values returned
    patterns,      \* main: the findings detect_cheating returned
    c_stdout,      \* what main printed on standard output
    c_exit,        \* exit status of the process, meaningful when c_pc = "exited"
    c_raised,      \* the exception that ended the process, or "none"
    strip_line,    \* strip_comments.py: the line given to remove_inline_comments
    strip_out,     \* what remove_inline_comments returned for it
    adapter,       \* adapters: the ChessAdapter object and its attributes
    a_call,        \* the last method called on the adapter and what it returned
    a_movers,      \* who pushed each move of adapter.move_history (bookkeeping)
    a_resigned,    \* whether resign() was called on the current game (bookkeeping)
    game_json,     \* chess_server.py: the contents of state/game.json, if it exists
    tool_reply     \* the last MCP tool called and the message it returned

flakyVars == <<f_pc, f_caller, f_runs, f_framework, f_fs, f_json, all_results, f_child,
               f_children, test_results, f_report, f_stdout, f_exit, f_raised>>

cheatVars == <<c_pc, c_args, c_impl, c_test, c_test_values, patterns, c_stdout, c_exit,
               c_raised>>

stripVars == <<strip_line, strip_out>>

adapterVars == <<adapter, a_call, a_movers, a_resigned>>

serverVars == <<game_json, tool_reply>>

vars == <<flakyVars, cheatVars, stripVars, adapterVars, serverVars>>

-----------------------------------------------------------------------------
(* Bounds of the model.                                                    *)

\* The largest --runs value explored.
MaxRuns == 3

\* The longest line given to remove_inline_comments, in pieces of LinePieces.
MaxLinePieces == 4

-----------------------------------------------------------------------------
(* Text.                                                                   *)

\* Python str.replace(old, new): leftmost non-overlapping occurrences.
RECURSIVE StrReplace(_, _, _)
StrReplace(s, old, new) ==
    IF Len(s) < Len(old) THEN s
    ELSE IF SubSeq(s, 1, Len(old)) = old
         THEN new \o StrReplace(SubSeq(s, Len(old) + 1, Len(s)), old, new)
         ELSE <<Head(s)>> \o StrReplace(Tail(s), old, new)

\* The runners' own outcome tokens.
T_PASSED  == <<"P", "A", "S", "S", "E", "D">>
T_FAILED  == <<"F", "A", "I", "L", "E", "D">>
T_SKIPPED == <<"S", "K", "I", "P", "P", "E", "D">>
T_ok      == <<"o", "k">>
T_ignored == <<"i", "g", "n", "o", "r", "e", "d">>
T_passed  == <<"p", "a", "s", "s", "e", "d">>
T_failed  == <<"f", "a", "i", "l", "e", "d">>
T_pending == <<"p", "e", "n", "d", "i", "n", "g">>
T_todo    == <<"t", "o", "d", "o">>

\* The shared outcome strings.
PASS    == <<"P", "A", "S", "S">>
FAIL    == <<"F", "A", "I", "L">>
ERROR   == <<"E", "R", "R", "O", "R">>
SKIP    == <<"S", "K", "I", "P">>
MISSING == <<"M", "I", "S", "S", "I", "N", "G">>

\* TestResult.outcomes: "PASS", "FAIL", "ERROR", "SKIP", and "MISSING" for a
\* run the test is absent from.
TestOutcome == {PASS, FAIL, ERROR, SKIP, MISSING}

-----------------------------------------------------------------------------
(* detect_flaky.py: the test framework adapter.                            *)

\* Test identifiers, in the order sorted() gives them.
NameOrder == <<"t::A", "t::B">>
TestNames == {NameOrder[i] : i \in 1..Len(NameOrder)}

\* What detect_framework reads from the file system.
FsFacts == [read : {TRUE}, py_tests : BOOLEAN, jest_tests : BOOLEAN,
            cargo_toml : BOOLEAN]

\* detect_framework is not called: the file system is not looked at.
FsUnread == [read |-> FALSE, py_tests |-> FALSE, jest_tests |-> FALSE,
             cargo_toml |-> FALSE]

\* Mutant: the Jest test files are looked for before the Python ones.
detect_framework_jest_first(fs) ==
    IF fs.jest_tests THEN "jest"
    ELSE IF fs.py_tests THEN "pytest"
    ELSE IF fs.cargo_toml THEN "cargo"
    ELSE "pytest"

detect_framework(fs) ==
    IF fs.py_tests THEN "pytest"
    ELSE IF fs.jest_tests THEN "jest"
    ELSE IF fs.cargo_toml THEN "cargo"
    ELSE "pytest"

\* A line of a runner's text output: either it matches the runner's line
\* pattern, with the test name and the outcome token the pattern captured,
\* or it does not match.
NoMatch == [matched |-> FALSE, name |-> "", token |-> <<>>]
Line(n, t) == [matched |-> TRUE, name |-> n, token |-> t]

\* The tokens the pytest pattern accepts: (PASSED|FAILED|ERROR|SKIPPED).
PytestTokens == {T_PASSED, T_FAILED, ERROR, T_SKIPPED}
\* The tokens the cargo pattern accepts: (ok|FAILED|ignored).
CargoTokens == {T_ok, T_FAILED, T_ignored}
\* Status values of a Jest assertion record; "todo" is one the table lacks.
JestStatuses == {T_passed, T_failed, T_pending, T_todo}

\* outcome.replace("PASSED", "PASS").replace("SKIPPED", "SKIP")
PytestOutcome(token) == StrReplace(StrReplace(token, T_PASSED, PASS), T_SKIPPED, SKIP)

\* {"ok": "PASS", "FAILED": "FAIL", "ignored": "SKIP"}.get(outcome, "ERROR")
CargoOutcome(token) ==
    IF token = T_ok THEN PASS
    ELSE IF token = T_FAILED THEN FAIL
    ELSE IF token = T_ignored THEN SKIP
    ELSE ERROR

\* {"passed": "PASS", "failed": "FAIL", "pending": "SKIP"}.get(status, "ERROR")
JestOutcome(status) ==
    IF status = T_passed THEN PASS
    ELSE IF status = T_failed THEN FAIL
    ELSE IF status = T_pending THEN SKIP
    ELSE ERROR

\* results[test_name] = outcome: a later entry for the same key replaces it.
DictSet(results, k, v) == (k :> v) @@ results

\* What a runner function gives back: the result map, or the exception
\* that left it.
Returned(results) == [raised |-> "none", results |-> results]
Raised(exc) == [raised |-> exc, results |-> <<>>]

RECURSIVE PytestLines(_, _)
PytestLines(lines, results) ==
    IF lines = <<>> THEN results
    ELSE LET line == Head(lines)
         IN  PytestLines(Tail(lines),
                 IF line.matched
                 THEN DictSet(results, line.name, PytestOutcome(line.token))
                 ELSE results)

run_pytest(output) == Returned(PytestLines(output.lines, <<>>))

RECURSIVE CargoLines(_, _)
CargoLines(lines, results) ==
    IF lines = <<>> THEN results
    ELSE LET line == Head(lines)
         IN  CargoLines(Tail(lines),
                 IF line.matched
                 THEN DictSet(results, line.name, CargoOutcome(line.token))
                 ELSE results)

run_cargo(output) == Returned(CargoLines(output.lines, <<>>))

\* A Jest payload either fails json.loads, or is a document whose assertion
\* records carry a status, or one whose first record lacks the "status" key.
RECURSIVE JestAssertions(_, _)
JestAssertions(assertions, results) ==
    IF assertions = <<>> THEN Returned(results)
    ELSE LET a == Head(assertions)
         IN  IF ~a.has_status THEN Raised("KeyError")
             ELSE JestAssertions(Tail(assertions),
                      DictSet(results, a.name, JestOutcome(a.status)))

\* Mutant: the JSONDecodeError of a payload that is no document is not
\* caught.
run_jest_bad_payload_raises(output) ==
    IF ~output.parses THEN Raised("JSONDecodeError")
    ELSE JestAssertions(output.assertions, <<>>)

\* run_jest: json.loads failing with JSONDecodeError leaves results empty.
run_jest(output) ==
    IF ~output.parses THEN Returned(<<>>)
    ELSE JestAssertions(output.assertions, <<>>)

\* runners = {"pytest": run_pytest, "jest": run_jest, "cargo": run_cargo}
Runners == {"pytest", "jest", "cargo"}

run_tests(framework, output) ==
    IF framework \notin Runners THEN Raised("ValueError")
    ELSE IF framework = "pytest" THEN run_pytest(output)
    ELSE IF framework = "jest" THEN run_jest(output)
    ELSE run_cargo(output)

-----------------------------------------------------------------------------
(* detect_flaky.py: what the environment hands the tool.                   *)

\* Sequences of at most two elements of S.
UpTo2(S) == {<<>>} \cup {<<a>> : a \in S} \cup {<<a, b>> : a \in S, b \in S}

\* The lines and records a child can print.  The first test can end in every
\* way its runner can report; the second one passes whenever it is reported.
PytestLineSet ==
    {NoMatch} \cup {Line("t::A", t) : t \in PytestTokens} \cup {Line("t::B", T_PASSED)}
CargoLineSet ==
    {NoMatch} \cup {Line("t::A", t) : t \in CargoTokens} \cup {Line("t::B", T_ok)}
JestRecordSet ==
    {[name |-> "t::A", has_status |-> TRUE, status |-> st] : st \in JestStatuses}
    \cup {[name |-> "t::B", has_status |-> TRUE, status |-> T_passed]}
    \cup {[name |-> "t::A", has_status |-> FALSE, status |-> <<>>]}

\* The captured stdout + stderr of one child process, per framework.
RunnerOutputs(framework) ==
    IF framework = "pytest" THEN {[lines |-> l] : l \in UpTo2(PytestLineSet)}
    ELSE IF framework = "cargo" THEN {[lines |-> l] : l \in UpTo2(CargoLineSet)}
    ELSE {[parses |-> FALSE, assertions |-> <<>>]}
         \cup {[parses |-> TRUE, assertions |-> a] : a \in UpTo2(JestRecordSet)}

\* --runs takes any integer; range(runs) is empty for runs <= 0.
RunsArgs == (-1)..MaxRuns

\* The framework argument of detect_flaky_tests: None, a known framework, or
\* an unknown one.
FrameworkArgs == {"None", "pytest", "jest", "cargo", "mocha"}

-----------------------------------------------------------------------------
(* detect_flaky.py: detect_flaky_tests and main.                           *)

NoChild == [state |-> "none"]
NoReport == [made |-> FALSE, total_tests |-> 0, flaky_tests |-> <<>>,
             stable_tests |-> 0, runs |-> 0, framework |-> ""]
NoOutput == [mode |-> "none", banner |-> "", stable |-> FALSE, total_tests |-> 0,
             stable_tests |-> 0, flaky_count |-> 0, runs |-> 0, framework |-> "",
             flaky_tests |-> <<>>]

\* sorted(all_test_names)
Sorted(names) == SelectSeq(NameOrder, LAMBDA n : n \in names)

\* Mutant: every test of the suite is analysed, seen in a run or not.
AllTestNames_of_the_suite(results_list) == TestNames

\* all_test_names: the union of the runs' keys (lines 198-200).
AllTestNames(results_list) ==
    UNION {DOMAIN results_list[i] : i \in 1..Len(results_list)}

\* Mutant: the runs a test is absent from are left out of its sequence.
Outcomes_skip_absent(results_list, test_name) ==
    LET present == SelectSeq([i \in 1..Len(results_list) |-> i],
                             LAMBDA i : test_name \in DOMAIN results_list[i])
    IN  [k \in 1..Len(present) |-> results_list[present[k]][test_name]]

\* [results.get(test_name, "MISSING") for results in all_results]
Outcomes(results_list, test_name) ==
    [i \in 1..Len(results_list) |->
        IF test_name \in DOMAIN results_list[i] THEN results_list[i][test_name]
        ELSE MISSING]

\* Mutant: MISSING is not counted as an outcome of its own.
IsFlaky_ignoring_missing(outcomes) ==
    Cardinality({outcomes[i] : i \in 1..Len(outcomes)} \ {MISSING}) > 1

\* len(set(outcomes)) > 1
IsFlaky(outcomes) == Cardinality({outcomes[i] : i \in 1..Len(outcomes)}) > 1

TestResult(results_list, test_name) ==
    LET outcomes == Outcomes(results_list, test_name)
    IN  [name |-> test_name, outcomes |-> outcomes, is_flaky |-> IsFlaky(outcomes)]

\* The loop of lines 205-223: one TestResult per name, in sorted order.
Analyze(results_list) ==
    LET names == Sorted(AllTestNames(results_list))
    IN  [k \in 1..Len(names) |-> TestResult(results_list, names[k])]

\* Mutant: the flaky tests are not taken off the stable count.
FlakyReport_stable_is_total(results_list, runs, framework) ==
    LET trs == Analyze(results_list)
        flaky == SelectSeq(trs, LAMBDA t : t.is_flaky)
    IN  [made |-> TRUE, total_tests |-> Len(trs), flaky_tests |-> flaky,
         stable_tests |-> Len(trs), runs |-> runs, framework |-> framework]

FlakyReport(results_list, runs, framework) ==
    LET trs == Analyze(results_list)
        flaky == SelectSeq(trs, LAMBDA t : t.is_flaky)
    IN  [made |-> TRUE, total_tests |-> Len(trs), flaky_tests |-> flaky,
         stable_tests |-> Len(trs) - Len(flaky), runs |-> runs,
         framework |-> framework]

\* FlakyReport.is_stable
is_stable(report) == Len(report.flaky_tests) = 0

\* main, lines 253-280: what is printed, and the status the process ends with.
JsonOutput(report) ==
    [mode |-> "json", banner |-> "", stable |-> is_stable(report),
     total_tests |-> report.total_tests, stable_tests |-> report.stable_tests,
     flaky_count |-> Len(report.flaky_tests), runs |-> report.runs,
     framework |-> report.framework, flaky_tests |-> report.flaky_tests]

TextOutput(report) ==
    IF is_stable(report)
    THEN [NoOutput EXCEPT !.mode = "text", !.banner = "STABLE",
              !.total_tests = report.total_tests, !.runs = report.runs]
    ELSE [NoOutput EXCEPT !.mode = "text", !.banner = "FLAKY TESTS DETECTED",
              !.total_tests = report.total_tests, !.runs = report.runs,
              !.framework = report.framework,
              !.flaky_count = Len(report.flaky_tests),
              !.stable_tests = report.stable_tests,
              !.flaky_tests = report.flaky_tests]

\* sys.exit(1) is reached only in the branch that prints the flaky listing.
FlakyExitStatus(json, report) ==
    IF json THEN 0
    ELSE IF is_stable(report) THEN 0
    ELSE 1

FlakyInit ==
    /\ f_pc = "init"
    /\ f_caller = ""
    /\ f_runs = 0
    /\ f_framework = ""
    /\ f_fs = FsUnread
    /\ f_json = FALSE
    /\ all_results = <<>>
    /\ f_child = NoChild
    /\ f_children = <<>>
    /\ test_results = <<>>
    /\ f_report = NoReport
    /\ f_stdout = NoOutput
    /\ f_exit = 0
    /\ f_raised = "none"

\* main parses its arguments, --framework being absent or one of the
\* parser's choices (line 241), and calls detect_flaky_tests, or code that
\* imports the module calls it; detect_flaky_tests settles the framework
\* (lines 245-251, 184-190).
FlakyStart ==
    /\ f_pc = "init"
    /\ \E caller \in {"main", "api"}, runs \in RunsArgs, fw \in FrameworkArgs,
          json \in BOOLEAN, fs \in FsFacts :
          /\ caller = "main" => fw \in {"None", "pytest", "jest", "cargo"}
          /\ caller = "api" => ~json
          /\ f_caller' = caller
          /\ f_runs' = runs
          /\ f_framework' = IF fw = "None" THEN detect_framework(fs) ELSE fw
          /\ f_fs' = IF fw = "None" THEN fs ELSE FsUnread
          /\ f_json' = json
    /\ f_pc' = "loop"
    /\ UNCHANGED <<all_results, f_child, f_children, test_results, f_report,
                   f_stdout, f_exit, f_raised>>
    /\ UNCHANGED <<cheatVars, stripVars, adapterVars, serverVars>>

\* main is given a --framework that is not among the parser's choices:
\* parse_args prints the usage error and exits with status 2.
FlakyBadChoice ==
    /\ f_pc = "init"
    /\ f_caller' = "main"
    /\ f_raised' = "SystemExit"
    /\ f_exit' = 2
    /\ f_pc' = "exited"
    /\ UNCHANGED <<f_runs, f_framework, f_fs, f_json, all_results, f_child, f_children,
                   test_results, f_report, f_stdout>>
    /\ UNCHANGED <<cheatVars, stripVars, adapterVars, serverVars>>

\* An exception leaves detect_flaky_tests: nothing in it or in main catches
\* it, so under main the process ends with the given status, and another
\* caller gets the exception.
Propagate(exception, status) ==
    /\ f_raised' = exception
    /\ f_pc' = IF f_caller = "main" THEN "exited" ELSE "raised"
    /\ f_exit' = IF f_caller = "main" THEN status ELSE f_exit

\* The loop of lines 192-195 has a run left to make.
RunPending == f_pc = "loop" /\ Len(all_results) < f_runs /\ f_child.state # "running"

\* run_tests finds no runner for the framework and raises ValueError.
RunUnknownFramework ==
    /\ RunPending
    /\ f_framework \notin Runners
    /\ Propagate("ValueError", 1)
    /\ UNCHANGED <<f_caller, f_runs, f_framework, f_fs, f_json, all_results, f_child,
                   f_children, test_results, f_report, f_stdout>>
    /\ UNCHANGED <<cheatVars, stripVars, adapterVars, serverVars>>

\* Mutant: the child is started without waiting for the one before it
\* (Popen in place of run).
ChildStart_without_waiting ==
    /\ f_pc = "loop"
    /\ Len(f_children) < f_runs
    /\ f_framework \in Runners
    /\ f_child' = [state |-> "running"]
    /\ f_children' = Append(f_children, [run |-> Len(f_children) + 1,
                                          state |-> "running", stdout |-> "pending"])
    /\ UNCHANGED <<f_pc, f_caller, f_runs, f_framework, f_fs, f_json, all_results,
                   test_results, f_report, f_stdout, f_exit, f_raised>>
    /\ UNCHANGED <<cheatVars, stripVars, adapterVars, serverVars>>

\* subprocess.run starts the runner's executable, for run Len(all_results) + 1.
ChildStart ==
    /\ RunPending
    /\ f_framework \in Runners
    /\ f_child' = [state |-> "running"]
    /\ f_children' = Append(f_children, [run |-> Len(all_results) + 1,
                                          state |-> "running", stdout |-> "pending"])
    /\ UNCHANGED <<f_pc, f_caller, f_runs, f_framework, f_fs, f_json, all_results,
                   test_results, f_report, f_stdout, f_exit, f_raised>>
    /\ UNCHANGED <<cheatVars, stripVars, adapterVars, serverVars>>

\* subprocess.run cannot start the executable (it is not installed): it
\* raises FileNotFoundError, which nothing between it and main catches.
ChildLaunchFails ==
    /\ RunPending
    /\ f_framework \in Runners
    /\ f_child' = [state |-> "launch_failed"]
    /\ Propagate("FileNotFoundError", 1)
    /\ UNCHANGED <<f_caller, f_runs, f_framework, f_fs, f_json, all_results, f_children,
                   test_results, f_report, f_stdout>>
    /\ UNCHANGED <<cheatVars, stripVars, adapterVars, serverVars>>

\* subprocess.run has waited for the child: it is no longer running.
Reaped(children) ==
    [k \in 1..Len(children) |-> [children[k] EXCEPT !.state = "reaped"]]

\* The child ends, with whatever exit status (result.returncode is never
\* read), and subprocess.run returns its output; the runner function parses
\* it and the loop appends the result map.
ChildExit ==
    /\ f_pc = "loop"
    /\ f_child.state = "running"
    /\ \E output \in RunnerOutputs(f_framework) :
          LET r == run_tests(f_framework, output)
          IN  /\ f_child' = [state |-> "reaped"]
              /\ f_children' =
                     [Reaped(f_children) EXCEPT ![Len(f_children)].stdout =
                         IF f_framework # "jest" THEN "text"
                         ELSE IF output.parses THEN "json" ELSE "not_json"]
              /\ IF r.raised = "none"
                 THEN /\ all_results' = Append(all_results, r.results)
                      /\ UNCHANGED <<f_pc, f_exit, f_raised>>
                 ELSE /\ Propagate(r.raised, 1)
                      /\ UNCHANGED all_results
    /\ UNCHANGED <<f_caller, f_runs, f_framework, f_fs, f_json, test_results, f_report,
                   f_stdout>>
    /\ UNCHANGED <<cheatVars, stripVars, adapterVars, serverVars>>

\* The session is interrupted (SIGINT) while the loop is under way:
\* KeyboardInterrupt is raised where the code stands; subprocess.run kills
\* and waits for a running child before it lets the exception through.
FlakyAbort ==
    /\ f_pc = "loop"
    /\ f_child' = IF f_child.state = "running" THEN [state |-> "killed"] ELSE f_child
    /\ f_children' = Reaped(f_children)
    /\ Propagate("KeyboardInterrupt", 130)
    /\ UNCHANGED <<f_caller, f_runs, f_framework, f_fs, f_json, all_results,
                   test_results, f_report, f_stdout>>
    /\ UNCHANGED <<cheatVars, stripVars, adapterVars, serverVars>>

\* Mutant: the analysis starts as soon as one run has been made.
FlakyFinish_after_first_run ==
    /\ f_pc = "loop"
    /\ Len(all_results) >= (IF f_runs > 1 THEN 1 ELSE f_runs)
    /\ f_child.state # "running"
    /\ LET report == FlakyReport(all_results, f_runs, f_framework)
       IN  /\ test_results' = Analyze(all_results)
           /\ f_report' = report
           /\ f_stdout' = IF f_caller # "main" THEN f_stdout
                          ELSE IF f_json THEN JsonOutput(report) ELSE TextOutput(report)
           /\ f_exit' = IF f_caller # "main" THEN f_exit
                        ELSE FlakyExitStatus(f_json, report)
    /\ f_pc' = IF f_caller = "main" THEN "exited" ELSE "returned"
    /\ UNCHANGED <<f_caller, f_runs, f_framework, f_fs, f_json, all_results, f_child,
                   f_children, f_raised>>
    /\ UNCHANGED <<cheatVars, stripVars, adapterVars, serverVars>>

\* All runs are made: the results are analysed and the report is returned
\* (lines 197-231); main prints it and the process ends (lines 253-280).
FlakyFinish ==
    /\ f_pc = "loop"
    /\ Len(all_results) >= f_runs
    /\ f_child.state # "running"
    /\ LET report == FlakyReport(all_results, f_runs, f_framework)
       IN  /\ test_results' = Analyze(all_results)
           /\ f_report' = report
           /\ f_stdout' = IF f_caller # "main" THEN f_stdout
                          ELSE IF f_json THEN JsonOutput(report) ELSE TextOutput(report)
           /\ f_exit' = IF f_caller # "main" THEN f_exit
                        ELSE FlakyExitStatus(f_json, report)
    /\ f_pc' = IF f_caller = "main" THEN "exited" ELSE "returned"
    /\ UNCHANGED <<f_caller, f_runs, f_framework, f_fs, f_json, all_results, f_child,
                   f_children, f_raised>>
    /\ UNCHANGED <<cheatVars, stripVars, adapterVars, serverVars>>

FlakyNext ==
    \/ FlakyStart
    \/ FlakyBadChoice
    \/ RunUnknownFramework
    \/ ChildStart
    \/ ChildLaunchFails
    \/ ChildExit
    \/ FlakyAbort
    \/ FlakyFinish

-----------------------------------------------------------------------------
(* detect_cheating.py: text.                                               *)

\* Python "needle in haystack" on strings: needle occurs as a substring.
IsSubstring(needle, haystack) ==
    \E i \in 1..(Len(haystack) - Len(needle) + 1) :
        SubSeq(haystack, i, i + Len(needle) - 1) = needle

Whitespace == {" ", "\t"}

\* str.strip(): leading and trailing whitespace removed.
RECURSIVE LStrip(_)
LStrip(s) == IF s # <<>> /\ Head(s) \in Whitespace THEN LStrip(Tail(s)) ELSE s

RECURSIVE RStrip(_)
RStrip(s) ==
    IF s # <<>> /\ s[Len(s)] \in Whitespace THEN RStrip(SubSeq(s, 1, Len(s) - 1)) ELSE s

Strip(s) == RStrip(LStrip(s))

\* s[:80]
Truncate80(s) == IF Len(s) > 80 THEN SubSeq(s, 1, 80) ELSE s

\* A regular expression of the pattern table is a sequence of atoms: a set
\* of characters one of which must come next, or ".*".  Under re.IGNORECASE
\* a letter of the pattern stands for itself in either case.
Star == [star |-> TRUE, chars |-> {}]
OneOf(cs) == [star |-> FALSE, chars |-> cs]
L(lower, upper) == OneOf({lower, upper})
Quote == OneOf({"'", "\""})

\* The atoms of pat from the k-th on match the line from position i on.
RECURSIVE MatchAt(_, _, _, _)
MatchAt(pat, k, line, i) ==
    IF k > Len(pat) THEN TRUE
    ELSE IF pat[k].star
         THEN \E j \in i..(Len(line) + 1) : MatchAt(pat, k + 1, line, j)
         ELSE /\ i <= Len(line)
              /\ line[i] \in pat[k].chars
              /\ MatchAt(pat, k + 1, line, i + 1)

\* re.search(pattern, line, re.IGNORECASE)
ReSearch(pat, line) == \E i \in 1..(Len(line) + 1) : MatchAt(pat, 1, line, i)


\* test_detection_patterns (lines 165-172), each with its description.
test_detection_patterns ==
    <<
    \*   r'pytest.*in.*sys\.modules'
        [pattern |-> <<L("p", "P"), L("y", "Y"), L("t", "T"), L("e", "E"), L("s", "S"),
                       L("t", "T"), Star, L("i", "I"), L("n", "N"), Star,
                       L("s", "S"), L("y", "Y"), L("s", "S"), OneOf({"."}), L("m", "M"),
                       L("o", "O"), L("d", "D"), L("u", "U"), L("l", "L"), L("e", "E"),
                       L("s", "S")>>,
         description |-> "pytest module detection"],
    \*   r'unittest.*in.*sys\.modules'
        [pattern |-> <<L("u", "U"), L("n", "N"), L("i", "I"), L("t", "T"), L("t", "T"),
                       L("e", "E"), L("s", "S"), L("t", "T"), Star, L("i", "I"),
                       L("n", "N"), Star, L("s", "S"), L("y", "Y"), L("s", "S"),
                       OneOf({"."}), L("m", "M"), L("o", "O"), L("d", "D"), L("u", "U"),
                       L("l", "L"), L("e", "E"), L("s", "S")>>,
         description |-> "unittest module detection"],
    \*   r'__name__.*==.*['(dq)]__main__['(dq)].*test'
        [pattern |-> <<OneOf({"_"}), OneOf({"_"}), L("n", "N"), L("a", "A"), L("m", "M"),
                       L("e", "E"), OneOf({"_"}), OneOf({"_"}), Star, OneOf({"="}),
                       OneOf({"="}), Star, Quote, OneOf({"_"}), OneOf({"_"}),
                       L("m", "M"), L("a", "A"), L("i", "I"), L("n", "N"), OneOf({"_"}),
                       OneOf({"_"}), Quote, Star, L("t", "T"), L("e", "E"),
                       L("s", "S"), L("t", "T")>>,
         description |-> "main check with test"],
    \*   r'os\.environ\.get\(['(dq)]TEST'
        [pattern |-> <<L("o", "O"), L("s", "S"), OneOf({"."}), L("e", "E"), L("n", "N"),
                       L("v", "V"), L("i", "I"), L("r", "R"), L("o", "O"), L("n", "N"),
                       OneOf({"."}), L("g", "G"), L("e", "E"), L("t", "T"), OneOf({"("}),
                       Quote, L("t", "T"), L("e", "E"), L("s", "S"), L("t", "T")>>,
         description |-> "TEST environment variable"],
    \*   r'os\.environ\.get\(['(dq)]CI['(dq)]'
        [pattern |-> <<L("o", "O"), L("s", "S"), OneOf({"."}), L("e", "E"), L("n", "N"),
                       L("v", "V"), L("i", "I"), L("r", "R"), L("o", "O"), L("n", "N"),
                       OneOf({"."}), L("g", "G"), L("e", "E"), L("t", "T"), OneOf({"("}),
                       Quote, L("c", "C"), L("i", "I"), Quote>>,
         description |-> "CI environment variable"],
    \*   r'TESTING.*=.*True'
        [pattern |-> <<L("t", "T"), L("e", "E"), L("s", "S"), L("t", "T"), L("i", "I"),
                       L("n", "N"), L("g", "G"), Star, OneOf({"="}), Star,
                       L("t", "T"), L("r", "R"), L("u", "U"), L("e", "E")>>,
         description |-> "TESTING flag"]
    >>

-----------------------------------------------------------------------------
(* detect_cheating.py: syntax trees.                                       *)

\* A node of the tree ast.parse builds for an implementation file, with the
\* attributes the detectors read: text is what ast.unparse gives for an If's
\* test or a Return's value, keys are a Dict's keys, exprs are the
\* dictionary literals inside the node's expressions, body and orelse are
\* its statement lists, decorator_list are the dictionary literals inside a
\* function definition's decorators.
Node(type, lineno, end_lineno, name, text, has_value, keys, exprs, body, orelse, decorator_list) ==
    [type |-> type, lineno |-> lineno, end_lineno |-> end_lineno, name |-> name,
     text |-> text, has_value |-> has_value, keys |-> keys, exprs |-> exprs,
     body |-> body, orelse |-> orelse, decorator_list |-> decorator_list]

N_FunctionDef(l, e, name, body, decorator_list) ==
    Node("FunctionDef", l, e, name, <<>>, FALSE, <<>>, <<>>, body, <<>>, decorator_list)
N_If(l, test, exprs, body, orelse) ==
    Node("If", l, l, <<>>, test, FALSE, <<>>, exprs, body, orelse, <<>>)
N_Return(l, value, exprs) ==
    Node("Return", l, l, <<>>, value, TRUE, <<>>, exprs, <<>>, <<>>, <<>>)
N_ReturnNone(l) ==
    Node("Return", l, l, <<>>, <<>>, FALSE, <<>>, <<>>, <<>>, <<>>, <<>>)
N_Stmt(type, l, exprs) ==
    Node(type, l, l, <<>>, <<>>, FALSE, <<>>, exprs, <<>>, <<>>, <<>>)
N_Dict(l, keys, exprs) ==
    Node("Dict", l, l, <<>>, <<>>, FALSE, keys, exprs, <<>>, <<>>, <<>>)
N_Module(body) ==
    Node("Module", 0, 0, <<>>, <<>>, FALSE, <<>>, <<>>, body, <<>>, <<>>)

\* A key of a dictionary literal; a "**mapping" entry has None for its key.
Key(text) == [present |-> TRUE, text |-> text]
NoKey == [present |-> FALSE, text |-> <<>>]

\* ast.iter_child_nodes, in field order: a FunctionDef's decorator_list comes
\* after its body.
Children(node) == node.exprs \o node.body \o node.orelse \o node.decorator_list

\* An expression of a test file: a Constant carries repr(value) as text, a
\* Call the attribute name of its callee ("" when the callee is a plain
\* name), and args are a Call's arguments, a Compare's left operand and
\* comparators, a Tuple's elements, any other expression's operands.
Expr(type, text, attr, args) ==
    [type |-> type, text |-> text, attr |-> attr, args |-> args]
E_Constant(text) == Expr("Constant", text, "", <<>>)
E_Call(attr, args) == Expr("Call", <<>>, attr, args)
E_Compare(operands) == Expr("Compare", <<>>, "", operands)
E_Tuple(elts) == Expr("Tuple", <<>>, "", elts)
E_Other(type, operands) == Expr(type, <<>>, "", operands)

\* A statement of a test file: an assert with its test, or an expression
\* statement with its value.
T_Assert(test) == [type |-> "Assert", test |-> test]
T_Expr(value) == [type |-> "Expr", test |-> value]

\* The statements implementation files are made of.  Each is given with its
\* source lines and the tree ast.parse builds for it when it starts after
\* line b of the file.

\*   def square(x):
\*       return x * x
Impl_square(b) ==
    [lines |-> <<<<"d", "e", "f", " ", "s", "q", "u", "a", "r", "e", "(", "x", ")", ":">>,
                <<" ", " ", " ", " ", "r", "e", "t", "u", "r", "n", " ", "x", " ", "*", " ", "x">>>>,
     nodes |-> <<N_FunctionDef(b + 1, b + 2, <<"s", "q", "u", "a", "r", "e">>,
                  <<N_Return(b + 2, <<"x", " ", "*", " ", "x">>, <<>>)>>,
                  <<>>)>>]

\*   def f(x):
\*       if x == 5: return 25
\*       return x * x
Impl_hard25(b) ==
    [lines |-> <<<<"d", "e", "f", " ", "f", "(", "x", ")", ":">>,
                <<" ", " ", " ", " ", "i", "f", " ", "x", " ", "=", "=", " ", "5", ":", " ", "r", "e", "t", "u", "r", "n", " ", "2", "5">>,
                <<" ", " ", " ", " ", "r", "e", "t", "u", "r", "n", " ", "x", " ", "*", " ", "x">>>>,
     nodes |-> <<N_FunctionDef(b + 1, b + 3, <<"f">>,
                  <<N_If(b + 2, <<"x", " ", "=", "=", " ", "5">>, <<>>,
                      <<N_Return(b + 2, <<"2", "5">>, <<>>)>>,
                      <<>>),
                    N_Return(b + 3, <<"x", " ", "*", " ", "x">>, <<>>)>>,
                  <<>>)>>]

\*   def f(x):
\*       if x == 5: return 24
\*       return x * x
Impl_hard24(b) ==
    [lines |-> <<<<"d", "e", "f", " ", "f", "(", "x", ")", ":">>,
                <<" ", " ", " ", " ", "i", "f", " ", "x", " ", "=", "=", " ", "5", ":", " ", "r", "e", "t", "u", "r", "n", " ", "2", "4">>,
                <<" ", " ", " ", " ", "r", "e", "t", "u", "r", "n", " ", "x", " ", "*", " ", "x">>>>,
     nodes |-> <<N_FunctionDef(b + 1, b + 3, <<"f">>,
                  <<N_If(b + 2, <<"x", " ", "=", "=", " ", "5">>, <<>>,
                      <<N_Return(b + 2, <<"2", "4">>, <<>>)>>,
                      <<>>),
                    N_Return(b + 3, <<"x", " ", "*", " ", "x">>, <<>>)>>,
                  <<>>)>>]

\*   def g(x):
\*       if x == 15:
\*           return 25
\*       else:
\*           return 49
Impl_sub15(b) ==
    [lines |-> <<<<"d", "e", "f", " ", "g", "(", "x", ")", ":">>,
                <<" ", " ", " ", " ", "i", "f", " ", "x", " ", "=", "=", " ", "1", "5", ":">>,
                <<" ", " ", " ", " ", " ", " ", " ", " ", "r", "e", "t", "u", "r", "n", " ", "2", "5">>,
                <<" ", " ", " ", " ", "e", "l", "s", "e", ":">>,
                <<" ", " ", " ", " ", " ", " ", " ", " ", "r", "e", "t", "u", "r", "n", " ", "4", "9">>>>,
     nodes |-> <<N_FunctionDef(b + 1, b + 5, <<"g">>,
                  <<N_If(b + 2, <<"x", " ", "=", "=", " ", "1", "5">>, <<>>,
                      <<N_Return(b + 3, <<"2", "5">>, <<>>)>>,
                      <<N_Return(b + 5, <<"4", "9">>, <<>>)>>)>>,
                  <<>>)>>]

\*   def h(x):
\*       if x > 0:
\*           if x == 7:
\*               return 49
\*               return 49
\*           return
\*       return 0
Impl_nested(b) ==
    [lines |-> <<<<"d", "e", "f", " ", "h", "(", "x", ")", ":">>,
                <<" ", " ", " ", " ", "i", "f", " ", "x", " ", ">", " ", "0", ":">>,
                <<" ", " ", " ", " ", " ", " ", " ", " ", "i", "f", " ", "x", " ", "=", "=", " ", "7", ":">>,
                <<" ", " ", " ", " ", " ", " ", " ", " ", " ", " ", " ", " ", "r", "e", "t", "u", "r", "n", " ", "4", "9">>,
                <<" ", " ", " ", " ", " ", " ", " ", " ", " ", " ", " ", " ", "r", "e", "t", "u", "r", "n", " ", "4", "9">>,
                <<" ", " ", " ", " ", " ", " ", " ", " ", "r", "e", "t", "u", "r", "n">>,
                <<" ", " ", " ", " ", "r", "e", "t", "u", "r", "n", " ", "0">>>>,
     nodes |-> <<N_FunctionDef(b + 1, b + 7, <<"h">>,
                  <<N_If(b + 2, <<"x", " ", ">", " ", "0">>, <<>>,
                      <<N_If(b + 3, <<"x", " ", "=", "=", " ", "7">>, <<>>,
                          <<N_Return(b + 4, <<"4", "9">>, <<>>),
                            N_Return(b + 5, <<"4", "9">>, <<>>)>>,
                          <<>>),
                        N_ReturnNone(b + 6)>>,
                      <<>>),
                    N_Return(b + 7, <<"0">>, <<>>)>>,
                  <<>>)>>]

\*   TABLE = {5: 25, 7: 49}
Impl_table(b) ==
    [lines |-> <<<<"T", "A", "B", "L", "E", " ", "=", " ", "{", "5", ":", " ", "2", "5", ",", " ", "7", ":", " ", "4", "9", "}">>>>,
     nodes |-> <<N_Stmt("Assign", b + 1, <<N_Dict(b + 1, <<Key(<<"5">>),
                        Key(<<"7">>)>>, <<>>)>>)>>]

\*   ONE = {5: 25, **more}
Impl_table1(b) ==
    [lines |-> <<<<"O", "N", "E", " ", "=", " ", "{", "5", ":", " ", "2", "5", ",", " ", "*", "*", "m", "o", "r", "e", "}">>>>,
     nodes |-> <<N_Stmt("Assign", b + 1, <<N_Dict(b + 1, <<Key(<<"5">>),
                        NoKey>>, <<>>)>>)>>]

\*   if 'pytest' in sys.modules and 'unittest' in sys.modules: TESTING = True
Impl_sniff(b) ==
    [lines |-> <<<<"i", "f", " ", "'", "p", "y", "t", "e", "s", "t", "'", " ", "i", "n", " ", "s", "y", "s", ".", "m", "o", "d", "u", "l", "e", "s", " ", "a", "n", "d", " ", "'", "u", "n", "i", "t", "t", "e", "s", "t", "'", " ", "i", "n", " ", "s", "y", "s", ".", "m", "o", "d", "u", "l", "e", "s", ":", " ", "T", "E", "S", "T", "I", "N", "G", " ", "=", " ", "T", "r", "u", "e">>>>,
     nodes |-> <<N_If(b + 1, <<"'", "p", "y", "t", "e", "s", "t", "'", " ", "i", "n", " ", "s", "y", "s", ".", "m", "o", "d", "u", "l", "e", "s", " ", "a", "n", "d", " ", "'", "u", "n", "i", "t", "t", "e", "s", "t", "'", " ", "i", "n", " ", "s", "y", "s", ".", "m", "o", "d", "u", "l", "e", "s">>, <<>>,
                  <<N_Stmt("Assign", b + 1, <<>>)>>,
                  <<>>)>>]

\*   def k(x):
\*       if x == 1: return 1
\*       if x == 2: return 4
\*       if x == 3: return 9
\*       if x == 4: return 16
\*       if x == 5: return 25
\*       if x == 6: return 36
Impl_chain(b) ==
    [lines |-> <<<<"d", "e", "f", " ", "k", "(", "x", ")", ":">>,
                <<" ", " ", " ", " ", "i", "f", " ", "x", " ", "=", "=", " ", "1", ":", " ", "r", "e", "t", "u", "r", "n", " ", "1">>,
                <<" ", " ", " ", " ", "i", "f", " ", "x", " ", "=", "=", " ", "2", ":", " ", "r", "e", "t", "u", "r", "n", " ", "4">>,
                <<" ", " ", " ", " ", "i", "f", " ", "x", " ", "=", "=", " ", "3", ":", " ", "r", "e", "t", "u", "r", "n", " ", "9">>,
                <<" ", " ", " ", " ", "i", "f", " ", "x", " ", "=", "=", " ", "4", ":", " ", "r", "e", "t", "u", "r", "n", " ", "1", "6">>,
                <<" ", " ", " ", " ", "i", "f", " ", "x", " ", "=", "=", " ", "5", ":", " ", "r", "e", "t", "u", "r", "n", " ", "2", "5">>,
                <<" ", " ", " ", " ", "i", "f", " ", "x", " ", "=", "=", " ", "6", ":", " ", "r", "e", "t", "u", "r", "n", " ", "3", "6">>>>,
     nodes |-> <<N_FunctionDef(b + 1, b + 7, <<"k">>,
                  <<N_If(b + 2, <<"x", " ", "=", "=", " ", "1">>, <<>>,
                      <<N_Return(b + 2, <<"1">>, <<>>)>>,
                      <<>>),
                    N_If(b + 3, <<"x", " ", "=", "=", " ", "2">>, <<>>,
                      <<N_Return(b + 3, <<"4">>, <<>>)>>,
                      <<>>),
                    N_If(b + 4, <<"x", " ", "=", "=", " ", "3">>, <<>>,
                      <<N_Return(b + 4, <<"9">>, <<>>)>>,
                      <<>>),
                    N_If(b + 5, <<"x", " ", "=", "=", " ", "4">>, <<>>,
                      <<N_Return(b + 5, <<"1", "6">>, <<>>)>>,
                      <<>>),
                    N_If(b + 6, <<"x", " ", "=", "=", " ", "5">>, <<>>,
                      <<N_Return(b + 6, <<"2", "5">>, <<>>)>>,
                      <<>>),
                    N_If(b + 7, <<"x", " ", "=", "=", " ", "6">>, <<>>,
                      <<N_Return(b + 7, <<"3", "6">>, <<>>)>>,
                      <<>>)>>,
                  <<>>)>>]

\*   def m(x):
\*       if x == 1:
\*           y = 1
\*           return y
\*       if x == 2:
\*           y = 4
\*           return y
\*       if x == 3:
\*           y = 9
\*           return y
\*       if x == 4:
\*           y = 16
\*           return y
\*       if x == 5:
\*           y = 25
\*           return y
\*       if x == 6:
\*           return 36
Impl_sparse(b) ==
    [lines |-> <<<<"d", "e", "f", " ", "m", "(", "x", ")", ":">>,
                <<" ", " ", " ", " ", "i", "f", " ", "x", " ", "=", "=", " ", "1", ":">>,
                <<" ", " ", " ", " ", " ", " ", " ", " ", "y", " ", "=", " ", "1">>,
                <<" ", " ", " ", " ", " ", " ", " ", " ", "r", "e", "t", "u", "r", "n", " ", "y">>,
                <<" ", " ", " ", " ", "i", "f", " ", "x", " ", "=", "=", " ", "2", ":">>,
                <<" ", " ", " ", " ", " ", " ", " ", " ", "y", " ", "=", " ", "4">>,
                <<" ", " ", " ", " ", " ", " ", " ", " ", "r", "e", "t", "u", "r", "n", " ", "y">>,
                <<" ", " ", " ", " ", "i", "f", " ", "x", " ", "=", "=", " ", "3", ":">>,
                <<" ", " ", " ", " ", " ", " ", " ", " ", "y", " ", "=", " ", "9">>,
                <<" ", " ", " ", " ", " ", " ", " ", " ", "r", "e", "t", "u", "r", "n", " ", "y">>,
                <<" ", " ", " ", " ", "i", "f", " ", "x", " ", "=", "=", " ", "4", ":">>,
                <<" ", " ", " ", " ", " ", " ", " ", " ", "y", " ", "=", " ", "1", "6">>,
                <<" ", " ", " ", " ", " ", " ", " ", " ", "r", "e", "t", "u", "r", "n", " ", "y">>,
                <<" ", " ", " ", " ", "i", "f", " ", "x", " ", "=", "=", " ", "5", ":">>,
                <<" ", " ", " ", " ", " ", " ", " ", " ", "y", " ", "=", " ", "2", "5">>,
                <<" ", " ", " ", " ", " ", " ", " ", " ", "r", "e", "t", "u", "r", "n", " ", "y">>,
                <<" ", " ", " ", " ", "i", "f", " ", "x", " ", "=", "=", " ", "6", ":">>,
                <<" ", " ", " ", " ", " ", " ", " ", " ", "r", "e", "t", "u", "r", "n", " ", "3", "6">>>>,
     nodes |-> <<N_FunctionDef(b + 1, b + 18, <<"m">>,
                  <<N_If(b + 2, <<"x", " ", "=", "=", " ", "1">>, <<>>,
                      <<N_Stmt("Assign", b + 3, <<>>),
                        N_Return(b + 4, <<"y">>, <<>>)>>,
                      <<>>),
                    N_If(b + 5, <<"x", " ", "=", "=", " ", "2">>, <<>>,
                      <<N_Stmt("Assign", b + 6, <<>>),
                        N_Return(b + 7, <<"y">>, <<>>)>>,
                      <<>>),
                    N_If(b + 8, <<"x", " ", "=", "=", " ", "3">>, <<>>,
                      <<N_Stmt("Assign", b + 9, <<>>),
                        N_Return(b + 10, <<"y">>, <<>>)>>,
                      <<>>),
                    N_If(b + 11, <<"x", " ", "=", "=", " ", "4">>, <<>>,
                      <<N_Stmt("Assign", b + 12, <<>>),
                        N_Return(b + 13, <<"y">>, <<>>)>>,
                      <<>>),
                    N_If(b + 14, <<"x", " ", "=", "=", " ", "5">>, <<>>,
                      <<N_Stmt("Assign", b + 15, <<>>),
                        N_Return(b + 16, <<"y">>, <<>>)>>,
                      <<>>),
                    N_If(b + 17, <<"x", " ", "=", "=", " ", "6">>, <<>>,
                      <<N_Return(b + 18, <<"3", "6">>, <<>>)>>,
                      <<>>)>>,
                  <<>>)>>]

\*   def s(x):
\*       a = 'pytest in sys_modules'
\*       b = a + x
\*       c = b
\*       d = c
\*       return d
Impl_note(b) ==
    [lines |-> <<<<"d", "e", "f", " ", "s", "(", "x", ")", ":">>,
                <<" ", " ", " ", " ", "a", " ", "=", " ", "'", "p", "y", "t", "e", "s", "t", " ", "i", "n", " ", "s", "y", "s", "_", "m", "o", "d", "u", "l", "e", "s", "'">>,
                <<" ", " ", " ", " ", "b", " ", "=", " ", "a", " ", "+", " ", "x">>,
                <<" ", " ", " ", " ", "c", " ", "=", " ", "b">>,
                <<" ", " ", " ", " ", "d", " ", "=", " ", "c">>,
                <<" ", " ", " ", " ", "r", "e", "t", "u", "r", "n", " ", "d">>>>,
     nodes |-> <<N_FunctionDef(b + 1, b + 6, <<"s">>,
                  <<N_Stmt("Assign", b + 2, <<>>),
                    N_Stmt("Assign", b + 3, <<>>),
                    N_Stmt("Assign", b + 4, <<>>),
                    N_Stmt("Assign", b + 5, <<>>),
                    N_Return(b + 6, <<"d">>, <<>>)>>,
                  <<>>)>>]

\*   @register({5: 25, 7: 49})
\*   def r(x):
\*       return {5: 25, 7: 49}[x]
Impl_decorated(b) ==
    [lines |-> <<<<"@", "r", "e", "g", "i", "s", "t", "e", "r", "(", "{", "5", ":", " ", "2", "5", ",", " ", "7", ":", " ", "4", "9", "}", ")">>,
                <<"d", "e", "f", " ", "r", "(", "x", ")", ":">>,
                <<" ", " ", " ", " ", "r", "e", "t", "u", "r", "n", " ", "{", "5", ":", " ", "2", "5", ",", " ", "7", ":", " ", "4", "9", "}", "[", "x", "]">>>>,
     nodes |-> <<N_FunctionDef(b + 2, b + 3, <<"r">>,
                  <<N_Return(b + 3, <<"{", "5", ":", " ", "2", "5", ",", " ", "7", ":", " ", "4", "9", "}", "[", "x", "]">>, <<N_Dict(b + 3, <<Key(<<"5">>),
                            Key(<<"7">>)>>, <<>>)>>)>>,
                  <<N_Dict(b + 1, <<Key(<<"5">>),
                        Key(<<"7">>)>>, <<>>)>>)>>]

ImplStatements == {"square", "hard25", "hard24", "sub15", "nested", "table", "table1", "sniff", "chain", "sparse", "note", "decorated"}

ImplStatement(id, b) ==
    CASE id = "square" -> Impl_square(b)
      [] id = "hard25" -> Impl_hard25(b)
      [] id = "hard24" -> Impl_hard24(b)
      [] id = "sub15" -> Impl_sub15(b)
      [] id = "nested" -> Impl_nested(b)
      [] id = "table" -> Impl_table(b)
      [] id = "table1" -> Impl_table1(b)
      [] id = "sniff" -> Impl_sniff(b)
      [] id = "chain" -> Impl_chain(b)
      [] id = "sparse" -> Impl_sparse(b)
      [] id = "note" -> Impl_note(b)
      [] id = "decorated" -> Impl_decorated(b)

\* The statements test files are made of, with the trees ast.parse builds.

\*   assert f(5) == 25
Test_t5 == T_Assert(E_Compare(<<E_Call("", <<E_Constant(<<"5">>)>>),
          E_Constant(<<"2", "5">>)>>))

\*   assert f(7) == 49
Test_t7 == T_Assert(E_Compare(<<E_Call("", <<E_Constant(<<"7">>)>>),
          E_Constant(<<"4", "9">>)>>))

\*   self.assertEqual(f(5), 25)
Test_eq5 == T_Expr(E_Call("assertEqual", <<E_Call("", <<E_Constant(<<"5">>)>>),
          E_Constant(<<"2", "5">>)>>))

\*   assert f(x) == y + 1
Test_names == T_Assert(E_Compare(<<E_Call("", <<E_Other("Name", <<>>)>>),
          E_Other("BinOp", <<E_Other("Name", <<>>),
              E_Constant(<<"1">>)>>)>>))

\*   assert (f(7), 1) == (49, 1)
Test_tuple == T_Assert(E_Compare(<<E_Tuple(<<E_Call("", <<E_Constant(<<"7">>)>>),
              E_Constant(<<"1">>)>>),
          E_Tuple(<<E_Constant(<<"4", "9">>),
              E_Constant(<<"1">>)>>)>>))

\*   self.assertTrue(f(5) == 25)
Test_true == T_Expr(E_Call("assertTrue", <<E_Compare(<<E_Call("", <<E_Constant(<<"5">>)>>),
          E_Constant(<<"2", "5">>)>>)>>))

TestStatements == {Test_t5, Test_t7, Test_eq5, Test_names, Test_tuple, Test_true}

-----------------------------------------------------------------------------
(* detect_cheating.py: the files the tool is given.                        *)

\* Path(impl_file).read_text(), content.split('\n') and ast.parse(content)
\* of the file made of the given statements, one after the other.
RECURSIVE ImplBuild(_, _, _)
ImplBuild(ids, lines, nodes) ==
    IF ids = <<>> THEN [parses |-> TRUE,
                        lines |-> IF lines = <<>> THEN <<<<>>>> ELSE lines,
                        tree |-> N_Module(nodes)]
    ELSE LET st == ImplStatement(Head(ids), Len(lines))
         IN  ImplBuild(Tail(ids), lines \o st.lines, nodes \o st.nodes)

ImplFile(ids) == ImplBuild(ids, <<>>, <<>>)

\* A file ast.parse rejects with SyntaxError:
\*   TESTING = True
\*   def f(:
BrokenImpl ==
    [parses |-> FALSE,
     lines |-> <<<<"T", "E", "S", "T", "I", "N", "G", " ", "=", " ", "T", "r", "u", "e">>,
                 <<"d", "e", "f", " ", "f", "(", ":">>>>,
     tree |-> N_Module(<<>>)]

ImplFiles == {ImplFile(ids) : ids \in UpTo2(ImplStatements)}
                 \cup {BrokenImpl}

TestFile(stmts) == [parses |-> TRUE, stmts |-> stmts]
BrokenTest == [parses |-> FALSE, stmts |-> <<>>]
TestFiles == {TestFile(stmts) : stmts \in UpTo2(TestStatements)} \cup {BrokenTest}

-----------------------------------------------------------------------------
(* detect_cheating.py: extract_test_values.                                *)

\* The two sets of extracted values.  "iteration" is the order in which the
\* inputs set yields its elements in this process: the elements are strings,
\* whose hashes differ from one interpreter start to the next.
NoTestValues == [inputs |-> {}, outputs |-> {}, iteration |-> <<>>]

IterationOrders(S) ==
    {order \in [1..Cardinality(S) -> S] :
        \A i, j \in 1..Cardinality(S) : order[i] = order[j] => i = j}

\* The callee names visit_Call takes for equality assertions.
AssertNames == {"assertEqual", "assertEquals", "assertAlmostEqual"}

\* for arg in node.args: if isinstance(arg, ast.Constant): inputs.add(repr(arg.value))
ConstantArgs(node) ==
    {node.args[i].text : i \in {j \in 1..Len(node.args) : node.args[j].type = "Constant"}}

\* _extract_value, and its application to the nodes of a list in turn.
RECURSIVE extract_value(_, _)
RECURSIVE extract_values(_, _)
\* Mutant: the operands of a computed expression are searched like the
\* elements of a tuple.
extract_value_searches_computed(node, tv) ==
    IF node.type = "Constant" THEN [tv EXCEPT !.outputs = @ \cup {node.text}]
    ELSE IF node.type = "Call" THEN [tv EXCEPT !.inputs = @ \cup ConstantArgs(node)]
    ELSE extract_values(node.args, tv)

extract_value(node, tv) ==
    IF node.type = "Constant" THEN [tv EXCEPT !.outputs = @ \cup {node.text}]
    ELSE IF node.type = "Tuple" THEN extract_values(node.args, tv)
    ELSE IF node.type = "Call" THEN [tv EXCEPT !.inputs = @ \cup ConstantArgs(node)]
    ELSE tv

extract_values(nodes, tv) ==
    IF nodes = <<>> THEN tv
    ELSE extract_values(Tail(nodes), extract_value(Head(nodes), tv))

\* NodeVisitor.visit on an expression: visit_Call on every call, and
\* generic_visit below every node.
RECURSIVE visit_expr(_, _)
RECURSIVE visit_exprs(_, _)
visit_expr(node, tv) ==
    LET here == IF /\ node.type = "Call"
                   /\ node.attr \in AssertNames
                   /\ Len(node.args) >= 2
                THEN extract_values(node.args, tv)
                ELSE tv
    IN  visit_exprs(node.args, here)

visit_exprs(nodes, tv) ==
    IF nodes = <<>> THEN tv
    ELSE visit_exprs(Tail(nodes), visit_expr(Head(nodes), tv))

\* visit_Assert for an assert statement, generic_visit for any other.
visit_statement(stmt, tv) ==
    LET here == IF stmt.type = "Assert" /\ stmt.test.type = "Compare"
                THEN extract_values(stmt.test.args, tv)
                ELSE tv
    IN  visit_expr(stmt.test, here)

RECURSIVE visit_statements(_, _)
visit_statements(stmts, tv) ==
    IF stmts = <<>> THEN tv
    ELSE visit_statements(Tail(stmts), visit_statement(Head(stmts), tv))

extract_test_values(test_file) == visit_statements(test_file.stmts, NoTestValues)

-----------------------------------------------------------------------------
(* detect_cheating.py: the four detectors.                                 *)

impl_file == "impl.py"

\* CheatingPattern; the description is kept as its format string's name and
\* the values formatted into it.
CheatingPattern(pattern_type, description, line, code_snippet, severity) ==
    [pattern_type |-> pattern_type, description |-> description,
     file |-> impl_file, line |-> line, code_snippet |-> code_snippet,
     severity |-> severity]

Description(msg, text, n, m) == [msg |-> msg, text |-> text, n |-> n, m |-> m]

\* lines[node.lineno - 1]
LineOf(lines, lineno) == lines[lineno]

\* The statements visit_If looks at for returns: node.body.
\* Mutant: the else-branch is searched as well.
ReturnCandidates_with_orelse(node) == node.body \o node.orelse

ReturnCandidates(node) == node.body

\* Mutant: only the input the set yields first is looked for.
ConditionUsesInput_first_yielded(condition_str, tv) ==
    /\ tv.iteration # <<>>
    /\ IsSubstring(tv.iteration[1], condition_str)

\* any(inp in condition_str for inp in test_values["inputs"]): the inputs are
\* tried in the order the set yields them, up to the first that is found.
ConditionUsesInput(condition_str, tv) ==
    \E i \in 1..Len(tv.iteration) :
        /\ IsSubstring(tv.iteration[i], condition_str)
        /\ \A j \in 1..(i - 1) : ~IsSubstring(tv.iteration[j], condition_str)

\* The test of lines 102-108 on one statement of the then-branch.
IsHardcodedReturn(node, stmt, tv) ==
    /\ stmt.type = "Return"
    /\ stmt.has_value
    /\ stmt.text \in tv.outputs
    /\ ConditionUsesInput(node.text, tv)

\* HardcodeDetector.visit_If, before its generic_visit.
HardcodeAtIf(node, lines, tv) ==
    LET hits == SelectSeq(ReturnCandidates(node),
                          LAMBDA stmt : IsHardcodedReturn(node, stmt, tv))
    IN  [k \in 1..Len(hits) |->
            CheatingPattern("hardcoded_return",
                Description("Returns {} when condition matches test input",
                            hits[k].text, 0, 0),
                node.lineno, Strip(LineOf(lines, node.lineno)), "high")]

RECURSIVE HardcodeVisit(_, _, _)
RECURSIVE HardcodeVisitAll(_, _, _)
HardcodeVisit(node, lines, tv) ==
    (IF node.type = "If" THEN HardcodeAtIf(node, lines, tv) ELSE <<>>)
        \o HardcodeVisitAll(Children(node), lines, tv)

HardcodeVisitAll(nodes, lines, tv) ==
    IF nodes = <<>> THEN <<>>
    ELSE HardcodeVisit(Head(nodes), lines, tv) \o HardcodeVisitAll(Tail(nodes), lines, tv)

detect_hardcoded_returns(impl, tv) == HardcodeVisit(impl.tree, impl.lines, tv)

\* key_matches of LookupDetector.visit_Dict.
KeyMatches(node, tv) ==
    Cardinality({i \in 1..Len(node.keys) :
                    node.keys[i].present /\ node.keys[i].text \in tv.inputs})

\* Mutant: a single key matching a test input is enough to flag the literal.
LookupAtDict_flags_single_match(node, lines, tv) ==
    IF KeyMatches(node, tv) >= 1
    THEN <<CheatingPattern("lookup_table",
               Description("Dictionary with {} keys matching test inputs",
                           <<>>, KeyMatches(node, tv), 0),
               node.lineno, Truncate80(Strip(LineOf(lines, node.lineno))), "high")>>
    ELSE <<>>

\* LookupDetector.visit_Dict, before its generic_visit.
LookupAtDict(node, lines, tv) ==
    IF KeyMatches(node, tv) >= 2
    THEN <<CheatingPattern("lookup_table",
               Description("Dictionary with {} keys matching test inputs",
                           <<>>, KeyMatches(node, tv), 0),
               node.lineno, Truncate80(Strip(LineOf(lines, node.lineno))), "high")>>
    ELSE <<>>

RECURSIVE LookupVisit(_, _, _)
RECURSIVE LookupVisitAll(_, _, _)
LookupVisit(node, lines, tv) ==
    (IF node.type = "Dict" THEN LookupAtDict(node, lines, tv) ELSE <<>>)
        \o LookupVisitAll(Children(node), lines, tv)

LookupVisitAll(nodes, lines, tv) ==
    IF nodes = <<>> THEN <<>>
    ELSE LookupVisit(Head(nodes), lines, tv) \o LookupVisitAll(Tail(nodes), lines, tv)

detect_lookup_tables(impl, tv) == LookupVisit(impl.tree, impl.lines, tv)

\* Mutant: the search of a line stops at the first pattern that matches.
TestDetectionAtLine_first_match_only(i, line) ==
    LET hits == SelectSeq(test_detection_patterns,
                          LAMBDA p : ReSearch(p.pattern, line))
    IN  IF hits = <<>> THEN <<>>
        ELSE <<CheatingPattern("test_detection",
                   Description(hits[1].description, <<>>, 0, 0),
                   i, Strip(line), "high")>>

\* The inner loop of lines 175-184: the patterns that match one line.
TestDetectionAtLine(i, line) ==
    LET hits == SelectSeq(test_detection_patterns,
                          LAMBDA p : ReSearch(p.pattern, line))
    IN  [k \in 1..Len(hits) |->
            CheatingPattern("test_detection",
                Description(hits[k].description, <<>>, 0, 0),
                i, Strip(line), "high")]

RECURSIVE TestDetectionFrom(_, _)
TestDetectionFrom(i, lines) ==
    IF i > Len(lines) THEN <<>>
    ELSE TestDetectionAtLine(i, lines[i]) \o TestDetectionFrom(i + 1, lines)

detect_test_environment_checks(impl) == TestDetectionFrom(1, impl.lines)

\* ast.walk(node): the node and everything below it.
RECURSIVE Walk(_)
RECURSIVE WalkAll(_)
Walk(node) == <<node>> \o WalkAll(Children(node))
WalkAll(nodes) ==
    IF nodes = <<>> THEN <<>> ELSE Walk(Head(nodes)) \o WalkAll(Tail(nodes))

\* Mutant: the walk is counted without the isinstance filter.
IfCount_counts_every_node(node) == Len(Walk(node))

\* sum(1 for _ in ast.walk(node) if isinstance(_, ast.If))
IfCount(node) == Len(SelectSeq(Walk(node), LAMBDA n : n.type = "If"))

\* The severity of an excessive_conditionals finding.
\* Mutant: it is reported as high, like the findings of the other detectors.
ExcessiveSeverity_high == "high"

ExcessiveSeverity == "medium"

\* ConditionalCounter.visit_FunctionDef, before its generic_visit.
\* if_count > line_count / 3 is a comparison of reals: 3 * if_count > line_count.
ExcessiveAtFunction(node) ==
    LET if_count == IfCount(node)
        line_count == node.end_lineno - node.lineno
    IN  IF if_count > 5 /\ 3 * if_count > line_count
        THEN <<CheatingPattern("excessive_conditionals",
                   Description("Function '{}' has {} conditionals in {} lines",
                               node.name, if_count, line_count),
                   node.lineno,
                   <<"d", "e", "f", " ">> \o node.name \o <<"(", ".", ".", ".", ")", ":">>,
                   ExcessiveSeverity)>>
        ELSE <<>>

RECURSIVE ExcessiveVisit(_)
RECURSIVE ExcessiveVisitAll(_)
ExcessiveVisit(node) ==
    (IF node.type = "FunctionDef" THEN ExcessiveAtFunction(node) ELSE <<>>)
        \o ExcessiveVisitAll(Children(node))

ExcessiveVisitAll(nodes) ==
    IF nodes = <<>> THEN <<>>
    ELSE ExcessiveVisit(Head(nodes)) \o ExcessiveVisitAll(Tail(nodes))

detect_excessive_conditionals(impl) == ExcessiveVisit(impl.tree)

\* detect_cheating, for files that parse, in a process whose inputs set
\* yields its elements in the given order.
detect_cheating(impl, test_file, order) ==
    LET test_values == [extract_test_values(test_file) EXCEPT !.iteration = order]
    IN  detect_hardcoded_returns(impl, test_values)
            \o detect_lookup_tables(impl, test_values)
            \o detect_test_environment_checks(impl)
            \o detect_excessive_conditionals(impl)

-----------------------------------------------------------------------------
(* detect_cheating.py: main.                                               *)

NoCheatOutput ==
    [mode |-> "none", banner |-> "", clean |-> FALSE, patterns |-> <<>>,
     high_severity |-> 0, medium_severity |-> 0, low_severity |-> 0,
     total |-> 0, high |-> <<>>, medium |-> <<>>]

\* [p for p in patterns if p.severity == severity]
WithSeverity(found, severity) == SelectSeq(found, LAMBDA p : p.severity = severity)

\* Mutant: the report is called clean when it holds no high-severity finding.
CheatJsonOutput_clean_if_no_high(found) ==
    [NoCheatOutput EXCEPT
        !.mode = "json",
        !.clean = (Len(WithSeverity(found, "high")) = 0),
        !.patterns = found,
        !.high_severity = Len(WithSeverity(found, "high")),
        !.medium_severity = Len(WithSeverity(found, "medium")),
        !.low_severity = Len(WithSeverity(found, "low"))]

\* The structured report of lines 246-253.
CheatJsonOutput(found) ==
    [NoCheatOutput EXCEPT
        !.mode = "json",
        !.clean = (Len(found) = 0),
        !.patterns = found,
        !.high_severity = Len(WithSeverity(found, "high")),
        !.medium_severity = Len(WithSeverity(found, "medium")),
        !.low_severity = Len(WithSeverity(found, "low"))]

\* The narrative report of lines 255-276.
CheatTextOutput(found) ==
    IF Len(found) = 0
    THEN [NoCheatOutput EXCEPT !.mode = "text", !.banner = "CLEAN"]
    ELSE [NoCheatOutput EXCEPT
             !.mode = "text",
             !.banner = "CHEATING PATTERNS DETECTED",
             !.total = Len(found),
             !.high = WithSeverity(found, "high"),
             !.medium = WithSeverity(found, "medium")]

\* sys.exit(1) is reached only in the branch that prints the narrative
\* listing of the findings.
CheatExitStatus(json_output, found) ==
    IF json_output THEN 0
    ELSE IF Len(found) = 0 THEN 0
    ELSE 1

\* sys.argv: whether it names the two files, and whether it holds --json.
CheatArgs == [files : BOOLEAN, json : BOOLEAN]

CheatInit ==
    /\ c_pc = "init"
    /\ c_args \in CheatArgs
    /\ c_impl \in ImplFiles
    /\ c_test \in TestFiles
    /\ ~c_args.files => (c_impl = ImplFile(<<>>) /\ c_test = TestFile(<<>>))
    /\ c_test_values = NoTestValues
    /\ patterns = <<>>
    /\ c_stdout = NoCheatOutput
    /\ c_exit = 0
    /\ c_raised = "none"

\* Fewer than two arguments: the usage text is printed (lines 235-237).
CheatUsage ==
    /\ c_pc = "init"
    /\ ~c_args.files
    /\ c_stdout' = [NoCheatOutput EXCEPT !.mode = "usage"]
    /\ c_exit' = 1
    /\ c_pc' = "exited"
    /\ UNCHANGED <<c_args, c_impl, c_test, c_test_values, patterns, c_raised>>
    /\ UNCHANGED <<flakyVars, stripVars, adapterVars, serverVars>>

\* Mutant: a SyntaxError of the implementation file is swallowed and the
\* report is made of what the text-based detector finds.
CheatParseError_partial_report ==
    /\ c_pc = "init"
    /\ c_args.files
    /\ ~c_test.parses \/ ~c_impl.parses
    /\ IF c_test.parses
       THEN LET found == detect_test_environment_checks(c_impl)
            IN  /\ patterns' = found
                /\ c_stdout' = IF c_args.json THEN CheatJsonOutput(found)
                                              ELSE CheatTextOutput(found)
                /\ c_exit' = CheatExitStatus(c_args.json, found)
                /\ UNCHANGED c_raised
       ELSE /\ c_raised' = "SyntaxError"
            /\ c_exit' = 1
            /\ UNCHANGED <<patterns, c_stdout>>
    /\ c_test_values' = IF c_test.parses THEN extract_test_values(c_test)
                                         ELSE NoTestValues
    /\ c_pc' = "exited"
    /\ UNCHANGED <<c_args, c_impl, c_test>>
    /\ UNCHANGED <<flakyVars, stripVars, adapterVars, serverVars>>

\* ast.parse raises SyntaxError, in extract_test_values for the test file or
\* in detect_hardcoded_returns for the implementation file; nothing catches
\* it and the process ends with a traceback.
CheatParseError ==
    /\ c_pc = "init"
    /\ c_args.files
    /\ ~c_test.parses \/ ~c_impl.parses
    /\ c_test_values' = IF c_test.parses THEN extract_test_values(c_test)
                                         ELSE NoTestValues
    /\ c_raised' = "SyntaxError"
    /\ c_exit' = 1
    /\ c_pc' = "exited"
    /\ UNCHANGED <<c_args, c_impl, c_test, patterns, c_stdout>>
    /\ UNCHANGED <<flakyVars, stripVars, adapterVars, serverVars>>

\* Both files parse: the detectors run, the report is printed and the
\* process ends (lines 243-278).
CheatReport ==
    /\ c_pc = "init"
    /\ c_args.files
    /\ c_test.parses /\ c_impl.parses
    /\ \E order \in IterationOrders(extract_test_values(c_test).inputs) :
           LET found == detect_cheating(c_impl, c_test, order)
           IN  /\ patterns' = found
               /\ c_stdout' = IF c_args.json THEN CheatJsonOutput(found)
                                             ELSE CheatTextOutput(found)
               /\ c_exit' = CheatExitStatus(c_args.json, found)
               /\ c_test_values' = [extract_test_values(c_test) EXCEPT !.iteration = order]
    /\ c_pc' = "exited"
    /\ UNCHANGED <<c_args, c_impl, c_test, c_raised>>
    /\ UNCHANGED <<flakyVars, stripVars, adapterVars, serverVars>>

CheatNext ==
    \/ CheatUsage
    \/ CheatParseError
    \/ CheatReport

-----------------------------------------------------------------------------
(* strip_comments.py: remove_inline_comments.                              *)

\* The pieces the lines are made of: a letter, a blank, the comment sign,
\* the backslash, the two quote characters, and the two triple quotes.
LinePieces ==
    {<<"a">>, <<" ">>, <<"#">>, <<"\\">>, <<"'">>, <<"\"">>,
     <<"'", "'", "'">>, <<"\"", "\"", "\"">>}

RECURSIVE Concat(_)
Concat(pieces) == IF pieces = <<>> THEN <<>> ELSE Head(pieces) \o Concat(Tail(pieces))

StripLines == {Concat(ps) : ps \in UNION {[1..n -> LinePieces] : n \in 0..MaxLinePieces}}

\* The while loop of lines 74-103, from index i (counted from 1) on.
\* string_char is the text assigned at line 91 or 96: one quote character, or
\* the three characters of a triple quote; line 84 compares it with the one
\* character at hand.
RECURSIVE InlineScan(_, _, _, _, _)
InlineScan(line, i, in_string, string_char, result) ==
    IF i > Len(line) THEN result
    ELSE LET char == line[i]
         IN  IF in_string
             THEN IF char = "\\" /\ i + 1 <= Len(line)
                  THEN InlineScan(line, i + 2, TRUE, string_char,
                                  result \o <<char, line[i + 1]>>)
                  ELSE InlineScan(line, i + 1, <<char>> # string_char, string_char,
                                  Append(result, char))
             ELSE IF char \in {"\"", "'"}
             THEN LET three == SubSeq(line, i, IF i + 2 <= Len(line) THEN i + 2 ELSE Len(line))
                  IN  IF three \in {<<"\"", "\"", "\"">>, <<"'", "'", "'">>}
                      THEN InlineScan(line, i + 3, TRUE, three, result \o three)
                      ELSE InlineScan(line, i + 1, TRUE, <<char>>, Append(result, char))
             ELSE IF char = "#" THEN result
             ELSE InlineScan(line, i + 1, FALSE, string_char, Append(result, char))

remove_inline_comments(line) == RStrip(InlineScan(line, 1, FALSE, <<>>, <<>>))

NoStripOutput == [state |-> "input", text |-> <<>>]

StripInit ==
    /\ strip_line \in StripLines
    /\ strip_out = NoStripOutput

\* strip_python_comments, line 51: the line is handed to
\* remove_inline_comments.
StripLine ==
    /\ strip_out.state = "input"
    /\ strip_out' = [state |-> "done", text |-> remove_inline_comments(strip_line)]
    /\ UNCHANGED strip_line
    /\ UNCHANGED <<flakyVars, cheatVars, adapterVars, serverVars>>

StripNext == StripLine

StripIdle ==
    /\ strip_line = <<>>
    /\ strip_out = [state |-> "off", text |-> <<>>]

-----------------------------------------------------------------------------
(* python-chess, as the adapters and the server use it.  The games explored *)
(* are those made of five moves from the starting position, among them the *)
(* shortest checkmate (f2f3 e7e5 g2g4 d8h4); every other string is not a   *)
(* move.  A position is written as the set of these moves that were made   *)
(* and the side to move, which is what its FEN text determines.            *)

WhiteMoves == {"e2e4", "f2f3", "g2g4"}
BlackMoves == {"e7e5", "d8h4"}

\* What a caller may pass for a move: one of the moves, or text that
\* chess.Move.from_uci rejects with ValueError.
UciInputs == WhiteMoves \cup BlackMoves \cup {"zz"}

\* chess.Board()
StartBoard == [made |-> {}, turn |-> "white"]

\* self.board = None
NoBoard == [made |-> {}, turn |-> "none"]

\* board.is_check(): the queen on h4 looks at e1 once the f-pawn has left f2.
is_check(board) ==
    board.turn = "white" /\ "d8h4" \in board.made /\ "f2f3" \in board.made

\* board.legal_moves, among the five moves: a pawn moves once, the queen
\* reaches h4 once e7 is empty, the f-pawn is pinned once the queen is on h4,
\* and none of the three white moves answers a check.
legal_moves(board) ==
    {m \in (IF board.turn = "white" THEN WhiteMoves
            ELSE IF board.turn = "black" THEN BlackMoves ELSE {}) :
        /\ m \notin board.made
        /\ ~is_check(board)
        /\ m = "d8h4" => "e7e5" \in board.made
        /\ m = "f2f3" => "d8h4" \notin board.made}

\* board.is_checkmate(): in check, with the g-pawn past g3 and the e-pawn
\* still on e2.  No position of these games is a stalemate or a draw, so
\* board.is_game_over() is board.is_checkmate().
is_checkmate(board) ==
    is_check(board) /\ "g2g4" \in board.made /\ "e2e4" \notin board.made

\* board.push(move)
push(board, move) ==
    [made |-> board.made \cup {move},
     turn |-> IF board.turn = "white" THEN "black" ELSE "white"]

-----------------------------------------------------------------------------
(* adapters/stockfish.py and adapters/local_board.py.                      *)

NoGameState ==
    [fen |-> NoBoard, move_history |-> <<>>, our_color |-> "None", is_our_turn |-> FALSE,
     result |-> "none", last_opponent_move |-> "None"]

NoCall == [op |-> "none", raised |-> "none", value |-> FALSE, engine_moved |-> FALSE,
           state |-> NoGameState]

\* move_history[-1] if move_history else None
LastOrNone(move_history) ==
    IF move_history = <<>> THEN "None" ELSE move_history[Len(move_history)]

\* get_position of either adapter, for a board that is not None.
get_position(a) ==
    LET is_our_turn == a.board.turn = a.our_color
    IN  [fen |-> a.board,
         move_history |-> a.move_history,
         our_color |-> a.our_color,
         is_our_turn |-> is_our_turn,
         result |-> IF is_checkmate(a.board)
                    THEN (IF a.board.turn = "white" THEN "0-1" ELSE "1-0")
                    ELSE "*",
         last_opponent_move |->
             IF a.kind = "stockfish"
             THEN (IF a.move_history # <<>> /\ ~is_our_turn
                   THEN LastOrNone(a.move_history) ELSE "None")
             ELSE a.pending]

\* A method returns the GameState get_position builds, or get_position
\* raises RuntimeError for want of a board.
Returns(op, a, engine_moved) ==
    IF a.board = NoBoard
    THEN [NoCall EXCEPT !.op = op, !.raised = "RuntimeError"]
    ELSE [NoCall EXCEPT !.op = op, !.engine_moved = engine_moved, !.state = get_position(a)]

\* StockfishAdapter(...) or LocalBoardAdapter(), just constructed.
AdapterInit ==
    /\ adapter \in [kind : {"stockfish", "local"}, board : {NoBoard}, our_color : {"None"},
                    move_history : {<<>>}, pending : {"None"}, engine : {FALSE}]
    /\ a_call = NoCall
    /\ a_movers = <<>>
    /\ a_resigned = FALSE

start_game ==
    /\ adapter.kind # "off"
    /\ \E our_color \in {"white", "black"} :
          LET a == [adapter EXCEPT !.board = StartBoard, !.our_color = our_color,
                                   !.move_history = <<>>, !.pending = "None",
                                   !.engine = (adapter.kind = "stockfish")]
          IN  /\ adapter' = a
              /\ a_call' = Returns("start_game", a, FALSE)
    /\ a_movers' = <<>>
    /\ a_resigned' = FALSE
    /\ UNCHANGED <<flakyVars, cheatVars, stripVars, serverVars>>

GetPosition ==
    /\ adapter.kind # "off"
    /\ a_call' = Returns("get_position", adapter, FALSE)
    /\ UNCHANGED <<adapter, a_movers, a_resigned>>
    /\ UNCHANGED <<flakyVars, cheatVars, stripVars, serverVars>>

\* make_move on adapter a, the move being pushed by the given mover.
MakeMove(op, a, uci_move, mover) ==
    IF a.board = NoBoard
    THEN /\ a_call' = [NoCall EXCEPT !.op = op, !.raised = "RuntimeError"]
         /\ adapter' = a
         /\ UNCHANGED a_movers
    ELSE IF uci_move \notin legal_moves(a.board)
    THEN /\ a_call' = [NoCall EXCEPT !.op = op, !.raised = "ValueError"]
         /\ adapter' = a
         /\ UNCHANGED a_movers
    ELSE LET moved == [a EXCEPT !.board = push(a.board, uci_move),
                                !.move_history = Append(a.move_history, uci_move)]
         IN  /\ adapter' = moved
             /\ a_call' = Returns(op, moved, FALSE)
             /\ a_movers' = Append(a_movers, mover)

make_move ==
    /\ adapter.kind # "off"
    /\ \E uci_move \in UciInputs : MakeMove("make_move", adapter, uci_move, "us")
    /\ UNCHANGED a_resigned
    /\ UNCHANGED <<flakyVars, cheatVars, stripVars, serverVars>>

\* LocalBoardAdapter.set_opponent_move: the move is remembered, then made.
set_opponent_move ==
    /\ adapter.kind = "local"
    /\ \E uci_move \in UciInputs :
          MakeMove("set_opponent_move", [adapter EXCEPT !.pending = uci_move], uci_move,
                   "opponent")
    /\ UNCHANGED a_resigned
    /\ UNCHANGED <<flakyVars, cheatVars, stripVars, serverVars>>

\* is_game_over of either adapter.
GameIsOver(a) == a.board = NoBoard \/ is_checkmate(a.board)

\* StockfishAdapter lets the engine play, unless the game is over; the
\* engine answers with a legal move or with none.  LocalBoardAdapter returns
\* the position.
wait_for_opponent ==
    /\ adapter.kind # "off"
    /\ IF adapter.kind = "local" \/ adapter.board = NoBoard \/ GameIsOver(adapter)
       THEN /\ a_call' = Returns("wait_for_opponent", adapter, FALSE)
            /\ UNCHANGED <<adapter, a_movers>>
       ELSE \E move \in legal_moves(adapter.board) \cup {"None"} :
               IF move = "None"
               THEN /\ a_call' = Returns("wait_for_opponent", adapter, FALSE)
                    /\ UNCHANGED <<adapter, a_movers>>
               ELSE LET moved == [adapter EXCEPT
                                     !.board = push(adapter.board, move),
                                     !.move_history = Append(adapter.move_history, move)]
                    IN  /\ adapter' = moved
                        /\ a_call' = Returns("wait_for_opponent", moved, TRUE)
                        /\ a_movers' = Append(a_movers, "opponent")
    /\ UNCHANGED a_resigned
    /\ UNCHANGED <<flakyVars, cheatVars, stripVars, serverVars>>

is_game_over ==
    /\ adapter.kind # "off"
    /\ a_call' = [NoCall EXCEPT !.op = "is_game_over", !.value = GameIsOver(adapter)]
    /\ UNCHANGED <<adapter, a_movers, a_resigned>>
    /\ UNCHANGED <<flakyVars, cheatVars, stripVars, serverVars>>

\* resign of either adapter: a GameState is built and returned; no attribute
\* of the adapter is assigned.
resign ==
    /\ adapter.kind # "off"
    /\ a_call' =
           IF adapter.board = NoBoard
           THEN [NoCall EXCEPT !.op = "resign", !.raised = "RuntimeError"]
           ELSE [NoCall EXCEPT
                    !.op = "resign",
                    !.state = [fen |-> adapter.board,
                               move_history |-> adapter.move_history,
                               our_color |-> adapter.our_color,
                               is_our_turn |-> FALSE,
                               result |-> IF adapter.our_color = "white" THEN "0-1"
                                                                        ELSE "1-0",
                               last_opponent_move |->
                                   IF adapter.kind = "stockfish"
                                   THEN LastOrNone(adapter.move_history)
                                   ELSE adapter.pending]]
    /\ a_resigned' = (a_resigned \/ adapter.board # NoBoard)
    /\ UNCHANGED <<adapter, a_movers>>
    /\ UNCHANGED <<flakyVars, cheatVars, stripVars, serverVars>>

AdapterNext ==
    \/ start_game
    \/ GetPosition
    \/ make_move
    \/ set_opponent_move
    \/ wait_for_opponent
    \/ is_game_over
    \/ resign

AdapterIdle ==
    /\ adapter = [kind |-> "off", board |-> NoBoard, our_color |-> "None",
                  move_history |-> <<>>, pending |-> "None", engine |-> FALSE]
    /\ a_call = NoCall
    /\ a_movers = <<>>
    /\ a_resigned = FALSE

-----------------------------------------------------------------------------
(* scripts/chess_server.py: the tools that write state/game.json.  The      *)
(* python-chess library is taken to be installed (CHESS_AVAILABLE).        *)

\* state/game.json does not exist.
NoFile ==
    [exists |-> FALSE, active |-> FALSE, fen |-> NoBoard, move_history |-> <<>>,
     our_color |-> "None", turn_number |-> 0, result |-> "absent"]

\* load_game_state: the file's contents, or the default dictionary, which
\* has no "result" key.
load_game_state ==
    IF game_json.exists THEN game_json
    ELSE [exists |-> TRUE, active |-> FALSE, fen |-> StartBoard, move_history |-> <<>>,
          our_color |-> "white", turn_number |-> 0, result |-> "absent"]

NoReply == [op |-> "none", uci |-> "None", kind |-> "none"]

ServerInit ==
    /\ game_json = NoFile
    /\ tool_reply = NoReply

\* Lines 563-577 and 865-879: the move is pushed, the state updated and saved.
Played(state, uci) ==
    LET board == push(state.fen, uci)
        history == Append(state.move_history, uci)
        moved == [state EXCEPT !.fen = board,
                               !.move_history = history,
                               !.turn_number = (Len(history) \div 2) + 1]
    IN  IF is_checkmate(board)
        THEN [moved EXCEPT !.result = IF board.turn = "white" THEN "black_wins"
                                                              ELSE "white_wins",
                           !.active = FALSE]
        ELSE moved

\* Mutant: the move is recorded before it is checked against the legal
\* moves of the position.
chess_move_recorded_before_check ==
    /\ tool_reply.op # "off"
    /\ \E uci \in UciInputs :
          LET state == load_game_state
          IN  IF uci \notin WhiteMoves \cup BlackMoves
              THEN /\ tool_reply' = [op |-> "chess_move", uci |-> uci, kind |-> "INVALID"]
                   /\ UNCHANGED game_json
              ELSE IF uci \notin legal_moves(state.fen)
              THEN /\ tool_reply' = [op |-> "chess_move", uci |-> uci, kind |-> "ILLEGAL"]
                   /\ game_json' = [state EXCEPT !.move_history = Append(@, uci)]
              ELSE /\ tool_reply' = [op |-> "chess_move", uci |-> uci, kind |-> "OK"]
                   /\ game_json' = Played(state, uci)
    /\ UNCHANGED <<flakyVars, cheatVars, stripVars, adapterVars>>

\* chess_move: text that is no move is answered with INVALID, a move that is
\* not legal with ILLEGAL, both without a save; a legal move is played.
chess_move ==
    /\ tool_reply.op # "off"
    /\ \E uci \in UciInputs :
          LET state == load_game_state
          IN  IF uci \notin WhiteMoves \cup BlackMoves
              THEN /\ tool_reply' = [op |-> "chess_move", uci |-> uci, kind |-> "INVALID"]
                   /\ UNCHANGED game_json
              ELSE IF uci \notin legal_moves(state.fen)
              THEN /\ tool_reply' = [op |-> "chess_move", uci |-> uci, kind |-> "ILLEGAL"]
                   /\ UNCHANGED game_json
              ELSE /\ tool_reply' = [op |-> "chess_move", uci |-> uci, kind |-> "OK"]
                   /\ game_json' = Played(state, uci)
    /\ UNCHANGED <<flakyVars, cheatVars, stripVars, adapterVars>>

\* Mutant: the turn number is computed before the move is appended.
chess_opponent_move_counts_before_append ==
    /\ tool_reply.op # "off"
    /\ LET state == load_game_state
       IN  \E move \in legal_moves(state.fen) \cup {"None"} :
              IF move = "None"
              THEN /\ tool_reply' = [op |-> "chess_opponent_move", uci |-> "None",
                                     kind |-> "Error"]
                   /\ UNCHANGED game_json
              ELSE /\ tool_reply' = [op |-> "chess_opponent_move", uci |-> move,
                                     kind |-> "Opponent"]
                   /\ game_json' =
                          [Played(state, move) EXCEPT
                              !.turn_number = (Len(state.move_history) \div 2) + 1]
    /\ UNCHANGED <<flakyVars, cheatVars, stripVars, adapterVars>>

\* chess_opponent_move: Stockfish is not found, or fails, or returns no
\* move, and an error is answered without a save; or its move is played.
chess_opponent_move ==
    /\ tool_reply.op # "off"
    /\ LET state == load_game_state
       IN  \E move \in legal_moves(state.fen) \cup {"None"} :
              IF move = "None"
              THEN /\ tool_reply' = [op |-> "chess_opponent_move", uci |-> "None",
                                     kind |-> "Error"]
                   /\ UNCHANGED game_json
              ELSE /\ tool_reply' = [op |-> "chess_opponent_move", uci |-> move,
                                     kind |-> "Opponent"]
                   /\ game_json' = Played(state, move)
    /\ UNCHANGED <<flakyVars, cheatVars, stripVars, adapterVars>>

\* chess_init_game: a colour that is neither white nor black becomes white
\* (lines 928-930); a fresh state is saved.
chess_init_game ==
    /\ tool_reply.op # "off"
    /\ \E our_color \in {"white", "black", "green"} :
          game_json' = [exists |-> TRUE, active |-> TRUE, fen |-> StartBoard,
                        move_history |-> <<>>,
                        our_color |-> IF our_color \in {"white", "black"} THEN our_color
                                                                          ELSE "white",
                        turn_number |-> 1, result |-> "in_progress"]
    /\ tool_reply' = [op |-> "chess_init_game", uci |-> "None", kind |-> "OK"]
    /\ UNCHANGED <<flakyVars, cheatVars, stripVars, adapterVars>>

ServerNext ==
    \/ chess_init_game
    \/ chess_move
    \/ chess_opponent_move

ServerIdle ==
    /\ game_json = NoFile
    /\ tool_reply = [NoReply EXCEPT !.op = "off"]

\* The detector that is not running.
CheatIdle ==
    /\ c_pc = "off"
    /\ c_args = [files |-> FALSE, json |-> FALSE]
    /\ c_impl = ImplFile(<<>>)
    /\ c_test = TestFile(<<>>)
    /\ c_test_values = NoTestValues
    /\ patterns = <<>>
    /\ c_stdout = NoCheatOutput
    /\ c_exit = 0
    /\ c_raised = "none"

FlakyIdle ==
    /\ f_pc = "off"
    /\ f_caller = ""
    /\ f_runs = 0
    /\ f_framework = ""
    /\ f_fs = FsUnread
    /\ f_json = FALSE
    /\ all_results = <<>>
    /\ f_child = NoChild
    /\ f_children = <<>>
    /\ test_results = <<>>
    /\ f_report = NoReport
    /\ f_stdout = NoOutput
    /\ f_exit = 0
    /\ f_raised = "none"

-----------------------------------------------------------------------------
(* The specifications: one tool runs, as one process.                      *)

InitFlaky == FlakyInit /\ CheatIdle /\ StripIdle /\ AdapterIdle /\ ServerIdle

SpecFlaky == InitFlaky /\ [][FlakyNext]_vars

InitCheat == CheatInit /\ FlakyIdle /\ StripIdle /\ AdapterIdle /\ ServerIdle

SpecCheat == InitCheat /\ [][CheatNext]_vars

InitStrip == StripInit /\ FlakyIdle /\ CheatIdle /\ AdapterIdle /\ ServerIdle

SpecStrip == InitStrip /\ [][StripNext]_vars

InitAdapter == AdapterInit /\ FlakyIdle /\ CheatIdle /\ StripIdle /\ ServerIdle

SpecAdapter == InitAdapter /\ [][AdapterNext]_vars

InitServer == ServerInit /\ FlakyIdle /\ CheatIdle /\ StripIdle /\ AdapterIdle

SpecServer == InitServer /\ [][ServerNext]_vars

Init == InitFlaky \/ InitCheat \/ InitStrip \/ InitAdapter \/ InitServer

Next == FlakyNext \/ CheatNext \/ StripNext \/ AdapterNext \/ ServerNext

Spec == Init /\ [][Next]_vars

-----------------------------------------------------------------------------
(* Claims about the flaky-test detector.                                   *)

\* The test identifiers some run recorded.
SeenNames == {n \in TestNames : \E i \in 1..Len(all_results) : n \in DOMAIN all_results[i]}

\* The distinct outcomes of a test over the runs, MISSING standing for a run
\* the test is absent from.
DistinctOutcomes(n) ==
    {IF n \in DOMAIN all_results[i] THEN all_results[i][n] ELSE MISSING :
        i \in 1..Len(all_results)}

ReportedFlaky == {f_report.flaky_tests[k].name : k \in 1..Len(f_report.flaky_tests)}

\* C1: in every report, a test identifier is reported flaky if and only if
\* its outcomes over the runs (MISSING for a run it is absent from) have
\* more than one distinct value, and every identifier whose outcomes are
\* all equal is counted as stable.
C1_FlakyIffDistinctOutcomes ==
    f_report.made =>
        /\ ReportedFlaky = {n \in SeenNames : Cardinality(DistinctOutcomes(n)) > 1}
        /\ f_report.stable_tests =
               Cardinality({n \in SeenNames : Cardinality(DistinctOutcomes(n)) = 1})
        /\ \A k \in 1..Len(test_results) :
               test_results[k].is_flaky
                   <=> Cardinality(DistinctOutcomes(test_results[k].name)) > 1

\* Three runs: one test passes in all of them and is stable, the other
\* passes, fails and passes and is flaky.
C1_Witness ==
    /\ f_report.made
    /\ Len(all_results) = 3
    /\ f_framework = "cargo"
    /\ \A i \in 1..3 : DOMAIN all_results[i] = TestNames /\ all_results[i]["t::B"] = PASS
    /\ all_results[1]["t::A"] = PASS
    /\ all_results[2]["t::A"] = FAIL
    /\ all_results[3]["t::A"] = PASS
    /\ ReportedFlaky = {"t::A"}
    /\ f_report.total_tests = 2
    /\ f_report.stable_tests = 1

\* The number of runs a session makes: range(runs) is empty for runs <= 0.
RunsMade == IF f_runs > 0 THEN f_runs ELSE 0

\* C2: for every test identifier in the union of the runs' keys there is
\* exactly one outcome sequence; its length is the number of runs, and entry
\* i is run i's recorded outcome when the identifier is present in run i
\* and MISSING when it is absent.
C2_OutcomeSequenceAligned ==
    f_report.made =>
        /\ Len(all_results) = RunsMade
        /\ {test_results[k].name : k \in 1..Len(test_results)} = SeenNames
        /\ Len(test_results) = Cardinality(SeenNames)
        /\ \A k \in 1..Len(test_results) :
               LET t == test_results[k]
               IN  /\ Len(t.outcomes) = RunsMade
                   /\ \A i \in 1..RunsMade :
                          t.outcomes[i] =
                              IF t.name \in DOMAIN all_results[i]
                              THEN all_results[i][t.name]
                              ELSE MISSING

\* A test present in runs 1 and 3 and absent in run 2 gets
\* [PASS, MISSING, PASS] and is among the flaky tests.
C2_Witness ==
    /\ f_report.made
    /\ Len(all_results) = 3
    /\ "t::B" \in DOMAIN all_results[1]
    /\ "t::B" \notin DOMAIN all_results[2]
    /\ "t::B" \in DOMAIN all_results[3]
    /\ \E k \in 1..Len(f_report.flaky_tests) :
          /\ f_report.flaky_tests[k].name = "t::B"
          /\ f_report.flaky_tests[k].outcomes = <<PASS, MISSING, PASS>>
          /\ f_report.flaky_tests[k].is_flaky

\* C3: in every report total_tests is the number of distinct test
\* identifiers in the union of the runs' result maps, total_tests is
\* stable_tests plus the number of flaky tests, and the report says stable
\* (the "stable" field, the STABLE banner) exactly when no test is flaky.
C3_ReportCounts ==
    f_report.made =>
        /\ f_report.total_tests = Cardinality(SeenNames)
        /\ f_report.total_tests = f_report.stable_tests + Len(f_report.flaky_tests)
        /\ is_stable(f_report) <=> (Len(f_report.flaky_tests) = 0)
        /\ f_stdout.mode = "json" =>
               (f_stdout.stable <=> (Len(f_report.flaky_tests) = 0))
        /\ f_stdout.mode = "text" =>
               ((f_stdout.banner = "STABLE") <=> (Len(f_report.flaky_tests) = 0))

\* A report over two tests, one of them flaky, printed in structured form.
C3_Witness ==
    /\ f_report.made
    /\ f_stdout.mode = "json"
    /\ f_report.total_tests = 2
    /\ Len(f_report.flaky_tests) = 1
    /\ f_report.stable_tests = 1
    /\ ~f_stdout.stable

\* C4: whatever the framework and the runner's output, every outcome stored
\* in a run's result map is one of PASS, FAIL, ERROR, SKIP, MISSING.
C4_OutcomesInEnum ==
    \A i \in 1..Len(all_results) :
        \A n \in DOMAIN all_results[i] : all_results[i][n] \in TestOutcome

\* C5: a child process that cannot be started is not an error of the run:
\* no exception ends the session, which goes on to produce a report.
C5_LaunchFailureTolerated ==
    f_child.state = "launch_failed" => (f_raised = "none" /\ f_pc # "exited")

\* C7: the process ends with status 0 when the report is stable and with
\* status 1 when a flaky test was found, in either output mode.
C7_ExitStatusFollowsReport ==
    (f_pc = "exited" /\ f_report.made) =>
        f_exit = (IF Len(f_report.flaky_tests) = 0 THEN 0 ELSE 1)

\* The children of the session that have not ended.
RunningChildren == {k \in 1..Len(f_children) : f_children[k].state = "running"}

\* C17: a session makes exactly `runs` invocations of the test runner, one
\* at a time and in run-index order: at most one child process exists at any
\* moment, the child of run i has ended and been reaped before run i+1
\* starts, and no run is retried or skipped, so that a session that returns
\* its report has started one child per run.
C17_RunsAreSequential ==
    /\ Cardinality(RunningChildren) <= 1
    /\ \A k \in 1..Len(f_children) :
           /\ f_children[k].run = k
           /\ k < Len(f_children) => f_children[k].state = "reaped"
    /\ Len(f_children) <= RunsMade
    /\ Len(all_results) <= Len(f_children)
    /\ f_report.made =>
           /\ Len(f_children) = RunsMade
           /\ RunningChildren = {}

\* A session of three runs returned its report: it started three children,
\* for runs 1, 2 and 3, and each has been reaped.
C17_Witness ==
    /\ f_report.made
    /\ f_runs = 3
    /\ Len(f_children) = 3
    /\ \A k \in 1..3 : f_children[k].run = k /\ f_children[k].state = "reaped"

\* C18: a report, stable or flaky, is produced only after all `runs`
\* invocations have completed; if the session is aborted, or an invocation
\* raises, before the last run completes, no report is produced and the
\* results of the runs already made are discarded: nothing is analysed,
\* returned or printed.
C18_ReportOnlyAfterAllRuns ==
    /\ f_report.made =>
           /\ Len(all_results) = RunsMade
           /\ RunningChildren = {}
           /\ f_raised = "none"
    /\ f_stdout.mode # "none" => f_report.made
    /\ f_raised # "none" =>
           /\ ~f_report.made
           /\ test_results = <<>>
           /\ f_stdout = NoOutput
           /\ f_pc \in {"exited", "raised"}

\* A session of three runs under main is interrupted after two runs were
\* made, one of which showed a failing test: no report, nothing printed.
C18_Witness ==
    /\ f_caller = "main"
    /\ f_runs = 3
    /\ Len(all_results) = 2
    /\ "t::A" \in DOMAIN all_results[1] /\ all_results[1]["t::A"] = PASS
    /\ "t::A" \in DOMAIN all_results[2] /\ all_results[2]["t::A"] = FAIL
    /\ f_raised = "KeyboardInterrupt"
    /\ f_pc = "exited"
    /\ ~f_report.made
    /\ f_stdout = NoOutput

\* detect_flaky_tests was called with a framework argument that names no
\* known framework.
UnknownFrameworkGiven == f_pc # "init" /\ f_framework \notin Runners \cup {""}

\* C19: calling detect with a framework argument that is not a recognised
\* framework is fatal, whatever the number of runs asked for: no test-runner
\* invocation is attempted, no report is ever returned, and the call ends
\* with the unknown-framework error (unless it is interrupted first).
C19_UnknownFrameworkIsFatal ==
    UnknownFrameworkGiven =>
        /\ f_children = <<>>
        /\ ~f_report.made
        /\ f_pc # "returned"
        /\ f_pc = "raised" => f_raised \in {"ValueError", "KeyboardInterrupt"}

\* C20: framework detection follows a fixed priority order with a default:
\* pytest whenever a Python test file exists under the test path, even if
\* Jest test files or a Cargo.toml exist as well; otherwise jest when a Jest
\* test file exists; otherwise cargo when Cargo.toml exists; otherwise
\* pytest.  The result is one of the three known frameworks, and a session
\* that is given no framework argument uses it for its runs and its report.
C20_DetectionPriority ==
    f_fs.read =>
        /\ f_fs.py_tests => f_framework = "pytest"
        /\ (~f_fs.py_tests /\ f_fs.jest_tests) => f_framework = "jest"
        /\ (~f_fs.py_tests /\ ~f_fs.jest_tests /\ f_fs.cargo_toml)
               => f_framework = "cargo"
        /\ (~f_fs.py_tests /\ ~f_fs.jest_tests /\ ~f_fs.cargo_toml)
               => f_framework = "pytest"
        /\ f_framework \in Runners
        /\ f_report.made => f_report.framework = f_framework

\* No framework argument, and the file system holds Python test files, Jest
\* test files and a Cargo.toml: the session ran pytest and its report says so.
C20_Witness ==
    /\ f_fs = [read |-> TRUE, py_tests |-> TRUE, jest_tests |-> TRUE,
               cargo_toml |-> TRUE]
    /\ f_framework = "pytest"
    /\ Len(f_children) >= 1
    /\ f_report.made
    /\ f_report.framework = "pytest"

SessionEnded == f_pc \in {"exited", "returned", "raised"}

\* C24: the end of a session depends on the child processes alone.  A
\* session with a known framework that is not interrupted from outside ends,
\* once its children have ended, with a report made after exactly `runs`
\* invocations; and while a child has not ended the session waits for it: it
\* does not end, report, or go on to another run.
C24_TerminationDependsOnChildrenOnly ==
    /\ (SessionEnded /\ f_framework \in Runners /\ f_raised # "KeyboardInterrupt") =>
           /\ f_report.made
           /\ f_raised = "none"
           /\ Len(f_children) = (IF f_runs > 0 THEN f_runs ELSE 0)
           /\ RunningChildren = {}
    /\ RunningChildren # {} =>
           /\ ~SessionEnded
           /\ ~f_report.made
           /\ Len(all_results) = Len(f_children) - 1

\* C30: with runs <= 1 no test can be flagged: with runs = 1 every test has
\* a sequence of one outcome, with runs <= 0 no runner is invoked and
\* total_tests is 0; in both cases the report is stable and the process ends
\* with status 0 whatever the outcomes are.  And whatever the number of runs,
\* no reported outcome sequence is made of MISSING only.
C30_NoFlakyWithoutTwoRuns ==
    f_report.made =>
        /\ f_runs <= 1 =>
               /\ f_report.flaky_tests = <<>>
               /\ is_stable(f_report)
               /\ f_stdout.mode = "json" => f_stdout.stable
               /\ f_stdout.mode = "text" => f_stdout.banner = "STABLE"
               /\ f_caller = "main" => (f_pc = "exited" /\ f_exit = 0)
        /\ f_runs = 1 =>
               \A j \in 1..Len(test_results) : Len(test_results[j].outcomes) = 1
        /\ f_runs <= 0 =>
               /\ f_children = <<>>
               /\ f_report.total_tests = 0
        /\ \A j \in 1..Len(test_results) :
               \E k \in 1..Len(test_results[j].outcomes) :
                   test_results[j].outcomes[k] # MISSING

\* One run in which a test failed and another passed, reported as STABLE with
\* status 0.
C30_Witness ==
    /\ f_report.made
    /\ f_caller = "main"
    /\ f_runs = 1
    /\ f_stdout.mode = "text"
    /\ Len(test_results) = 2
    /\ test_results[1].outcomes = <<FAIL>>
    /\ test_results[2].outcomes = <<PASS>>
    /\ f_exit = 0

-----------------------------------------------------------------------------
(* Claims about the cheating-pattern detector.                             *)

\* The process has printed a report, structured or narrative.
CheatReported == c_pc = "exited" /\ c_stdout.mode \in {"json", "text"}

\* C6: the process ends with a nonzero status if and only if at least one
\* finding exists, whatever the findings' severity and in either output
\* mode: 0 when the report is clean, 1 when any finding exists.
C6_ExitNonzeroIffFindings ==
    CheatReported =>
        /\ (c_exit # 0) <=> (Len(patterns) > 0)
        /\ c_exit = (IF Len(patterns) = 0 THEN 0 ELSE 1)

\* C8: every structured report has clean == (number of findings == 0) and
\* number of findings == high_severity + medium_severity + low_severity.
C8_StructuredReportCounts ==
    (c_pc = "exited" /\ c_stdout.mode = "json") =>
        /\ c_stdout.patterns = patterns
        /\ c_stdout.clean <=> (Len(patterns) = 0)
        /\ Len(patterns) = c_stdout.high_severity + c_stdout.medium_severity
                               + c_stdout.low_severity

\* A structured report whose findings are all of medium severity: it is not
\* clean although it counts no high-severity finding.
C8_Witness ==
    /\ c_pc = "exited"
    /\ c_stdout.mode = "json"
    /\ Len(c_stdout.patterns) = 1
    /\ c_stdout.medium_severity = 1
    /\ c_stdout.high_severity = 0
    /\ ~c_stdout.clean

PatternTypes == {"hardcoded_return", "lookup_table", "test_detection",
                 "excessive_conditionals"}

\* The kinds of the findings of the report.
ReportedTypes == {patterns[k].pattern_type : k \in 1..Len(patterns)}

\* C9: a finding's severity is determined by its kind: hardcoded_return,
\* lookup_table and test_detection findings are high, excessive_conditionals
\* findings are medium, and no finding has another kind or severity.
C9_SeverityByKind ==
    \A k \in 1..Len(patterns) :
        /\ patterns[k].pattern_type \in PatternTypes
        /\ patterns[k].severity =
               (IF patterns[k].pattern_type = "excessive_conditionals"
                THEN "medium" ELSE "high")

\* A report that holds an excessive_conditionals finding next to findings of
\* two of the other kinds.
C9_Witness ==
    /\ CheatReported
    /\ "excessive_conditionals" \in ReportedTypes
    /\ "hardcoded_return" \in ReportedTypes
    /\ Cardinality(ReportedTypes) >= 3

\* The hardcoded_return findings of the report at a line.
HardcodedAt(lineno) ==
    SelectSeq(patterns, LAMBDA p : p.pattern_type = "hardcoded_return"
                                       /\ p.line = lineno)

\* The conditional statements of the implementation file.
Conditionals == SelectSeq(Walk(c_impl.tree), LAMBDA n : n.type = "If")

\* The return statements directly in a conditional's then-branch whose text
\* is a test output, counted when the guard's text holds a test input.
ExpectedHardcoded(cond, tv) ==
    IF \E inp \in tv.inputs : IsSubstring(inp, cond.text)
    THEN Cardinality({k \in 1..Len(cond.body) :
                         /\ cond.body[k].type = "Return"
                         /\ cond.body[k].has_value
                         /\ cond.body[k].text \in tv.outputs})
    ELSE 0

\* C10: for every conditional statement and every return statement directly
\* in its then-branch, one hardcoded_return finding at the conditional's line
\* is emitted if and only if the returned expression's text is a test output
\* and the guard's text contains a test input as a substring; returns in the
\* else-branch or nested deeper give nothing for that conditional, and no
\* hardcoded_return finding is at a line that is not a conditional's.  With
\* inputs {"5"} and outputs {"25"}, "if x == 5: return 25" gives exactly one
\* finding and "if x == 5: return 24" gives none.
C10_HardcodedReturnPerThenBranchReturn ==
    CheatReported =>
        LET tv == extract_test_values(c_test)
            hardcoded == SelectSeq(patterns,
                                   LAMBDA p : p.pattern_type = "hardcoded_return")
        IN  /\ \A i \in 1..Len(Conditionals) :
                   Len(HardcodedAt(Conditionals[i].lineno))
                       = ExpectedHardcoded(Conditionals[i], tv)
            /\ \A k \in 1..Len(hardcoded) :
                   /\ hardcoded[k].severity = "high"
                   /\ \E i \in 1..Len(Conditionals) :
                          Conditionals[i].lineno = hardcoded[k].line
            /\ (tv = [inputs |-> {<<"5">>}, outputs |-> {<<"2", "5">>}]
                  /\ c_impl = ImplFile(<<"hard25">>)) => Len(hardcoded) = 1
            /\ (tv = [inputs |-> {<<"5">>}, outputs |-> {<<"2", "5">>}]
                  /\ c_impl = ImplFile(<<"hard24">>)) => Len(hardcoded) = 0

\* The tests give inputs {"5", "7"} and outputs {"25", "49"}, and the file has
\*   if x == 15: return 25 / else: return 49
\* whose guard holds "5": the then-branch return is the one finding, at the
\* conditional's line, and the else-branch return gives none.
C10_Witness ==
    /\ CheatReported
    /\ c_impl = ImplFile(<<"sub15">>)
    /\ c_test_values.inputs = {<<"5">>, <<"7">>}
    /\ c_test_values.outputs = {<<"2", "5">>, <<"4", "9">>}
    /\ Len(patterns) = 1
    /\ patterns[1].pattern_type = "hardcoded_return"
    /\ patterns[1].line = 2
    /\ patterns[1].description.text = <<"2", "5">>

\* The dictionary literals of the implementation file.
DictLiterals == SelectSeq(Walk(c_impl.tree), LAMBDA n : n.type = "Dict")

\* The lookup_table findings of the report at a line.
LookupAt(lineno) ==
    SelectSeq(patterns, LAMBDA p : p.pattern_type = "lookup_table" /\ p.line = lineno)

\* The keys of a dictionary literal whose text is a test input.
KeysFromInputs(dict, tv) ==
    {k \in 1..Len(dict.keys) : dict.keys[k].present /\ dict.keys[k].text \in tv.inputs}

\* C11: for every dictionary literal of the implementation, a literal with
\* zero or exactly one key drawn from the test inputs yields no finding, and
\* a literal with two or more such keys yields exactly one lookup_table
\* finding for that literal; no lookup_table finding is at a line without a
\* dictionary literal.
C11_LookupTableThreshold ==
    CheatReported =>
        LET tv == extract_test_values(c_test)
            lookups == SelectSeq(patterns, LAMBDA p : p.pattern_type = "lookup_table")
        IN  /\ \A i \in 1..Len(DictLiterals) :
                   Len(LookupAt(DictLiterals[i].lineno))
                       = (IF Cardinality(KeysFromInputs(DictLiterals[i], tv)) >= 2
                          THEN 1 ELSE 0)
            /\ \A k \in 1..Len(lookups) :
                   \E i \in 1..Len(DictLiterals) :
                       DictLiterals[i].lineno = lookups[k].line

\* The tests give inputs {"5", "7"}; the file holds {5: 25, 7: 49} on line 1,
\* with two keys among the inputs, and {5: 25, **more} on line 2, with one:
\* the report has one lookup_table finding, at line 1.
C11_Witness ==
    /\ CheatReported
    /\ c_impl = ImplFile(<<"table", "table1">>)
    /\ extract_test_values(c_test).inputs = {<<"5">>, <<"7">>}
    /\ Cardinality(KeysFromInputs(DictLiterals[1], extract_test_values(c_test))) = 2
    /\ Cardinality(KeysFromInputs(DictLiterals[2], extract_test_values(c_test))) = 1
    /\ Len(patterns) = 1
    /\ patterns[1].pattern_type = "lookup_table"
    /\ patterns[1].line = 1
    /\ patterns[1].description.n = 2

\* The function definitions of the implementation file.
FunctionDefs == SelectSeq(Walk(c_impl.tree), LAMBDA n : n.type = "FunctionDef")

\* The excessive_conditionals findings of the report at a line.
ExcessiveAt(lineno) ==
    SelectSeq(patterns, LAMBDA p : p.pattern_type = "excessive_conditionals"
                                       /\ p.line = lineno)

\* The conditional statements nested anywhere within a function definition.
ConditionalsWithin(fn) == Len(SelectSeq(Walk(fn), LAMBDA n : n.type = "If"))

\* The number of source lines a function definition occupies, from its def
\* line to its last line.
LinesOccupied(fn) == fn.end_lineno - fn.lineno + 1

\* C12: a function definition with c conditional statements nested anywhere
\* within it and occupying s source lines is flagged, with one
\* excessive_conditionals finding at its line, if and only if c > 5 and
\* c > s/3.
C12_ExcessiveIffDenserThanThird ==
    CheatReported =>
        \A i \in 1..Len(FunctionDefs) :
            LET fn == FunctionDefs[i]
                c == ConditionalsWithin(fn)
                s == LinesOccupied(fn)
            IN  Len(ExcessiveAt(fn.lineno)) = (IF c > 5 /\ 3 * c > s THEN 1 ELSE 0)

\* The test_detection findings of the report at a line.
TestDetectionAt(lineno) ==
    SelectSeq(patterns, LAMBDA p : p.pattern_type = "test_detection" /\ p.line = lineno)

\* The entries of the pattern table that match a line.
MatchingPatterns(line) ==
    {k \in 1..Len(test_detection_patterns) :
        ReSearch(test_detection_patterns[k].pattern, line)}

\* C13 as stated: each line of the implementation text that matches the
\* pattern table yields exactly one test_detection finding, at that line's
\* number and with the trimmed line text, and a line matching no pattern
\* yields none.
C13_OneFindingPerMatchingLine ==
    CheatReported =>
        \A i \in 1..Len(c_impl.lines) :
            /\ Len(TestDetectionAt(i))
                   = (IF MatchingPatterns(c_impl.lines[i]) # {} THEN 1 ELSE 0)
            /\ \A k \in 1..Len(TestDetectionAt(i)) :
                   TestDetectionAt(i)[k].code_snippet = Strip(c_impl.lines[i])

\* C13 as amended: each line yields one test_detection finding for every
\* entry of the pattern table it matches, in the table's order, each at the
\* line's number, with that entry's description and the trimmed line text;
\* a line matching no pattern yields none, and no test_detection finding is
\* at a line number outside the text.
C13_OneFindingPerMatchingPattern ==
    CheatReported =>
        /\ \A i \in 1..Len(c_impl.lines) :
               LET found == TestDetectionAt(i)
                   hits == SelectSeq(test_detection_patterns,
                               LAMBDA p : ReSearch(p.pattern, c_impl.lines[i]))
               IN  /\ Len(found) = Cardinality(MatchingPatterns(c_impl.lines[i]))
                   /\ Len(found) = Len(hits)
                   /\ \A k \in 1..Len(found) :
                          /\ found[k].description.msg = hits[k].description
                          /\ found[k].code_snippet = Strip(c_impl.lines[i])
                          /\ found[k].severity = "high"
        /\ \A k \in 1..Len(patterns) :
               patterns[k].pattern_type = "test_detection"
                   => patterns[k].line \in 1..Len(c_impl.lines)

\* The one-line file
\*   if 'pytest' in sys.modules and 'unittest' in sys.modules: TESTING = True
\* matches three entries of the table and has three findings at line 1.
C13_Witness ==
    /\ CheatReported
    /\ c_impl = ImplFile(<<"sniff">>)
    /\ Cardinality(MatchingPatterns(c_impl.lines[1])) = 3
    /\ Len(patterns) = 3
    /\ \A k \in 1..3 : patterns[k].pattern_type = "test_detection" /\ patterns[k].line = 1
    /\ patterns[1].description.msg = "pytest module detection"
    /\ patterns[2].description.msg = "unittest module detection"
    /\ patterns[3].description.msg = "TESTING flag"

\* The implementation file holds no conditional statement, no dictionary
\* literal and no line matching a test-environment pattern.
PlainImpl ==
    /\ Len(Conditionals) = 0
    /\ Len(DictLiterals) = 0
    /\ \A i \in 1..Len(c_impl.lines) : MatchingPatterns(c_impl.lines[i]) = {}

\* C14: for an implementation file with no conditional statement, no
\* dictionary literal and no line matching a test-environment pattern, and
\* for any test file, the report is clean: it has no finding.
C14_PlainImplIsClean ==
    (CheatReported /\ PlainImpl) =>
        /\ Len(patterns) = 0
        /\ c_stdout.mode = "json" => c_stdout.clean /\ c_stdout.patterns = <<>>
        /\ c_stdout.mode = "text" => c_stdout.banner = "CLEAN"

\* A file of two functions without conditionals, one of six statements and
\* with a line that comes close to the pytest pattern, against tests that
\* give inputs and outputs: the structured report is clean.
C14_Witness ==
    /\ CheatReported
    /\ PlainImpl
    /\ c_impl = ImplFile(<<"square", "note">>)
    /\ extract_test_values(c_test).inputs = {<<"5">>, <<"7">>}
    /\ c_stdout.mode = "json"
    /\ c_stdout.clean

\* The place of a finding's detector in the order the report lists them.
DetectorRank(pattern_type) ==
    CASE pattern_type = "hardcoded_return" -> 1
      [] pattern_type = "lookup_table" -> 2
      [] pattern_type = "test_detection" -> 3
      [] pattern_type = "excessive_conditionals" -> 4
      [] OTHER -> 5

\* C15: in every report the findings are ordered by detector (hardcoded
\* return, lookup table, test detection, excessive conditionals) and, within
\* one detector, by non-decreasing source line.
C15_OrderedByDetectorThenLine ==
    CheatReported =>
        \A j \in 1..Len(patterns) : \A k \in 1..Len(patterns) :
            j < k =>
                \/ DetectorRank(patterns[j].pattern_type)
                       < DetectorRank(patterns[k].pattern_type)
                \/ /\ patterns[j].pattern_type = patterns[k].pattern_type
                   /\ patterns[j].line <= patterns[k].line

\* The process was given its two files and one of them does not parse.
ParseFailed == c_pc = "exited" /\ c_args.files /\ (~c_impl.parses \/ ~c_test.parses)

\* C16: if the implementation file or the test file cannot be parsed, the
\* analysis aborts with the parse error propagated: no report is printed, no
\* finding of any detector is output (the text-based detector's included),
\* and the exit status is nonzero.
C16_ParseErrorAborts ==
    ParseFailed =>
        /\ c_raised = "SyntaxError"
        /\ c_stdout = NoCheatOutput
        /\ patterns = <<>>
        /\ c_exit # 0

\* The implementation file does not parse and has a line, TESTING = True,
\* that the text-based detector would match; the test file parses.
C16_Witness ==
    /\ ParseFailed
    /\ c_impl = BrokenImpl
    /\ c_test.parses
    /\ MatchingPatterns(c_impl.lines[1]) # {}
    /\ c_raised = "SyntaxError"
    /\ c_stdout.mode = "none"


\* Every expression below an expression, itself included.
RECURSIVE SubExprs(_)
SubExprs(node) ==
    {node} \cup UNION {SubExprs(node.args[i]) : i \in 1..Len(node.args)}

\* The expressions among the given ones, and the elements of the tuples among
\* them, and so on.
RECURSIVE TupleClosure(_)
TupleClosure(nodes) ==
    nodes \cup UNION {TupleClosure({n.args[i] : i \in 1..Len(n.args)}) :
                         n \in {m \in nodes : m.type = "Tuple"}}

Elements(seq) == {seq[i] : i \in 1..Len(seq)}

\* The expressions of a test file that stand where a value is asserted: the
\* operands of an asserted comparison, the arguments of an equality-assertion
\* call with at least two arguments, and the elements of tuples standing
\* there.
AssertedPositions(test_file) ==
    LET stmts == Elements(test_file.stmts)
        compared == UNION {Elements(st.test.args) :
                              st \in {t \in stmts : t.type = "Assert"
                                                     /\ t.test.type = "Compare"}}
        calls == {e \in UNION {SubExprs(st.test) : st \in stmts} :
                      /\ e.type = "Call"
                      /\ e.attr \in {"assertEqual", "assertEquals", "assertAlmostEqual"}
                      /\ Len(e.args) >= 2}
        passed == UNION {Elements(e.args) : e \in calls}
    IN  TupleClosure(compared \cup passed)

\* C22: the literal constants standing where a value is asserted are the
\* outputs, the literal arguments of the calls standing there are the inputs,
\* and nothing else is extracted: names and computed expressions contribute
\* nothing.
C22_TestValueClassification ==
    (c_pc = "exited" /\ c_args.files /\ c_test.parses) =>
        LET positions == AssertedPositions(c_test)
        IN  /\ c_test_values.outputs =
                   {e.text : e \in {p \in positions : p.type = "Constant"}}
            /\ c_test_values.inputs =
                   UNION {{a.text : a \in {x \in Elements(e.args) : x.type = "Constant"}} :
                             e \in {p \in positions : p.type = "Call"}}

\* `assert f(x) == y + 1` then `assert (f(7), 1) == (49, 1)`: 7 is the only
\* input, 49 and 1 the outputs.
C22_Witness ==
    /\ c_pc = "exited"
    /\ c_test = TestFile(<<Test_names, Test_tuple>>)
    /\ c_test_values.inputs = {<<"7">>}
    /\ c_test_values.outputs = {<<"4", "9">>, <<"1">>}


\* C23: the structured report does not depend on the order in which the set
\* of extracted inputs yields its elements: whatever the order in another
\* run on the same files, that run prints the same findings in the same
\* order with the same counts.
C23_ReportIndependentOfIterationOrder ==
    (CheatReported /\ c_args.json) =>
        \A order \in IterationOrders(c_test_values.inputs) :
            CheatJsonOutput(detect_cheating(c_impl, c_test, order)) = c_stdout

\* Two inputs, 7 yielded before 5, and a hard-coded return under a condition
\* on 5.
C23_Witness ==
    /\ CheatReported /\ c_args.json
    /\ c_test_values.iteration = <<<<"7">>, <<"5">>>>
    /\ Len(c_stdout.patterns) = 1
    /\ c_stdout.patterns[1].pattern_type = "hardcoded_return"


-----------------------------------------------------------------------------
(* Claims about remove_inline_comments.                                    *)

\* The index of the first '#' of a line that lies outside a string literal,
\* or the line's length plus one: a literal opens with a quote character or
\* a triple quote and closes with the same, a backslash inside it taking the
\* next character with it.  delim is the open literal's delimiter, if any.
RECURSIVE CommentStart(_, _, _)
CommentStart(line, i, delim) ==
    IF i > Len(line) THEN Len(line) + 1
    ELSE IF delim = <<>>
    THEN IF line[i] = "#" THEN i
         ELSE IF line[i] \in {"\"", "'"}
         THEN IF i + 2 <= Len(line) /\ line[i + 1] = line[i] /\ line[i + 2] = line[i]
              THEN CommentStart(line, i + 3, <<line[i], line[i], line[i]>>)
              ELSE CommentStart(line, i + 1, <<line[i]>>)
         ELSE CommentStart(line, i + 1, <<>>)
    ELSE IF line[i] = "\\" /\ i + 1 <= Len(line) THEN CommentStart(line, i + 2, delim)
    ELSE IF i + Len(delim) - 1 <= Len(line) /\ SubSeq(line, i, i + Len(delim) - 1) = delim
    THEN CommentStart(line, i + Len(delim), <<>>)
    ELSE CommentStart(line, i + 1, delim)

\* C27: for every line, remove_inline_comments returns the line cut at the
\* first '#' outside a string literal (single-, double- or triple-quoted,
\* backslash escapes honoured) and right-stripped: a '#' inside a literal
\* never starts a comment, a '#' after a closed literal always does.
C27_CutAtFirstCommentSign ==
    strip_out.state = "done" =>
        strip_out.text = RStrip(SubSeq(strip_line, 1, CommentStart(strip_line, 1, <<>>) - 1))


-----------------------------------------------------------------------------
(* Claims about the chess adapters.                                        *)

\* C25: for both adapters, once resign() has been called on a started game,
\* is_game_over() answers that the game has ended and get_position() no
\* longer reports the game as in progress.
C25_ResignationEndsTheGame ==
    a_resigned =>
        /\ a_call.op = "is_game_over" => a_call.value
        /\ (a_call.op = "get_position" /\ a_call.raised = "none") => a_call.state.result # "*"

\* The moves of the history the opponent made.
OpponentMoves == {k \in 1..Len(a_movers) : a_movers[k] = "opponent"}

\* C26: in StockfishAdapter, a last_opponent_move that is not None is a move
\* the opponent (the engine) played, the most recent one, and never a move
\* of our own; the GameState wait_for_opponent returns after the engine has
\* moved carries that engine move.
C26_LastOpponentMoveIsTheEngines ==
    (adapter.kind = "stockfish" /\ a_call.state # NoGameState) =>
        /\ a_call.state.last_opponent_move # "None" =>
               \E k \in OpponentMoves :
                   /\ a_call.state.last_opponent_move = a_call.state.move_history[k]
                   /\ \A j \in OpponentMoves : j <= k
        /\ a_call.engine_moved =>
               a_call.state.last_opponent_move = LastOrNone(a_call.state.move_history)


-----------------------------------------------------------------------------
(* Claims about the chess server's game state.                             *)

\* C28: a call of chess_move with a move that is not legal in the current
\* position, or with text that is no move, is answered with ILLEGAL or
\* INVALID and leaves the persisted state as it was; a call with a legal move
\* appends that one move to move_history and sets fen to the position after
\* it.
C28_MoveFrame ==
    [][tool_reply'.op = "chess_move" =>
          LET state == load_game_state
              uci == tool_reply'.uci
          IN  IF uci \in legal_moves(state.fen)
              THEN /\ tool_reply'.kind = "OK"
                   /\ game_json'.exists
                   /\ game_json'.move_history = Append(state.move_history, uci)
                   /\ game_json'.fen = push(state.fen, uci)
              ELSE /\ tool_reply'.kind \in {"ILLEGAL", "INVALID"}
                   /\ game_json' = game_json]_vars

\* After two moves of a game, a move that is not legal was refused.
C28_Witness ==
    /\ tool_reply.op = "chess_move"
    /\ tool_reply.kind = "ILLEGAL"
    /\ game_json.exists
    /\ game_json.move_history = <<"f2f3", "e7e5">>
    /\ game_json.turn_number = 2
    /\ game_json.active

\* C29: every state written by chess_init_game, chess_move or
\* chess_opponent_move has turn_number = (len(move_history) div 2) + 1; a
\* successful move makes move_history one entry longer, and it is made empty
\* by chess_init_game only.
C29_TurnNumberFollowsHistory ==
    [][/\ game_json'.exists =>
              game_json'.turn_number = (Len(game_json'.move_history) \div 2) + 1
       /\ (tool_reply'.op \in {"chess_move", "chess_opponent_move"}
              /\ tool_reply'.kind \in {"OK", "Opponent"}) =>
              game_json'.move_history =
                  Append(load_game_state.move_history, tool_reply'.uci)
       /\ game_json'.move_history # game_json.move_history =>
              IF tool_reply'.op = "chess_init_game"
              THEN game_json'.move_history = <<>>
              ELSE /\ tool_reply'.kind \in {"OK", "Opponent"}
                   /\ Len(game_json'.move_history) = Len(game_json.move_history) + 1]_vars

\* The engine's move was the third of the game: the turn number is 2.
C29_Witness ==
    /\ tool_reply.op = "chess_opponent_move"
    /\ tool_reply.kind = "Opponent"
    /\ Len(game_json.move_history) = 3
    /\ game_json.turn_number = 2

=============================================================================
